---- MODULE Spec2Model ----
(***************************************************************************)
(* A model of the dual-pane live log viewer of slurm-dashboard: the        *)
(* TailModel of the log view (bounded line buffers, wrapping, selection,   *)
(* follower lifecycle) and the part of the main Model that opens, routes   *)
(* to and closes it.  Strings are sequences of one-character strings.      *)
(* The TailModel is one record, m; a Go method with a pointer receiver is  *)
(* an operator from the record to the updated record, and the Bubble Tea   *)
(* commands an Update returns are added to the bag of tasks in flight.     *)
(***************************************************************************)
EXTENDS Integers, Sequences, FiniteSets, Bags, TLC

VARIABLES
    tm,         \* the TailModel held by the main Model (Model.tailModel)
    main,       \* the fields of the main Model the log view depends on
    session,    \* number of log-view sessions opened so far (ghost)
    pool,       \* bag of commands running off the loop and of their messages
    procs,      \* the follow processes spawned so far, by handle
    arrived,    \* per pane, the cleaned lines put into the buffer (ghost)
    clipboard,  \* the text the loop's last step handed to the clipboard bridge
    last        \* the message the loop handled last (ghost)

vars == <<tm, main, session, pool, procs, arrived, clipboard, last>>

----------------------------------------------------------------------------
(* Bounds of the model *)

\* capacity N of a pane (5000 in the program, scaled down)
MaxLogLines == 2
\* lines one follow process can deliver before its stream ends
MaxOut == 2
\* log-view sessions that can be opened in one run
MaxSessions == 2
\* runes typed into the search input
MaxQuery == 2

----------------------------------------------------------------------------
(* Program constants *)

searchOverlayHeight == 4
CharLimit == 156
TailModeBoth == 0
TailModeStdout == 1
TailModeStderr == 2

Panes == {"stdout", "stderr"}
NoHandle == 0

----------------------------------------------------------------------------
(* Strings *)

Max(a, b) == IF a > b THEN a ELSE b
Min(a, b) == IF a < b THEN a ELSE b

NL == "\n"
CR == "\r"
SP == " "

\* strings.Count(s, "\n")
RECURSIVE CountNL(_)
CountNL(s) ==
    IF s = <<>> THEN 0
    ELSE (IF Head(s) = NL THEN 1 ELSE 0) + CountNL(Tail(s))

\* strings.Split(s, "\n"): always at least one piece
RECURSIVE SplitFrom(_, _)
SplitFrom(s, cur) ==
    IF s = <<>> THEN <<cur>>
    ELSE IF Head(s) = NL THEN <<cur>> \o SplitFrom(Tail(s), <<>>)
    ELSE SplitFrom(Tail(s), Append(cur, Head(s)))

SplitNL(s) == SplitFrom(s, <<>>)

\* strings.Join(lines, "\n")
RECURSIVE JoinNL(_)
JoinNL(ls) ==
    IF ls = <<>> THEN <<>>
    ELSE IF Len(ls) = 1 THEN ls[1]
    ELSE ls[1] \o <<NL>> \o JoinNL(Tail(ls))

\* strings.TrimRight(line, "\r")
RECURSIVE TrimRightCR(_)
TrimRightCR(s) ==
    IF s # <<>> /\ s[Len(s)] = CR THEN TrimRightCR(SubSeq(s, 1, Len(s) - 1))
    ELSE s

\* strings.LastIndex(line, "\r"), 1-based; 0 when absent
LastIndexCR(s) ==
    IF \E i \in 1..Len(s) : s[i] = CR
    THEN CHOOSE i \in 1..Len(s) : s[i] = CR /\ \A j \in (i+1)..Len(s) : s[j] # CR
    ELSE 0

\* the escape character, and the characters of a cursor movement code
ESC == "ESC"
AnsiParams == {"0", "1", "2", "3", "4", "5", "6", "7", "8", "9", ";"}
AnsiFinals == {"A", "B", "C", "D", "E", "F", "G", "H", "I", "J", "K", "S", "T", "f"}

\* the first position at or after i that holds no parameter character
RECURSIVE AnsiParamsEnd(_, _)
AnsiParamsEnd(s, i) ==
    IF i <= Len(s) /\ s[i] \in AnsiParams THEN AnsiParamsEnd(s, i + 1) ELSE i

\* ansiCursorRegexp.ReplaceAllString(s, "") from position i on
RECURSIVE stripAnsiCursorFrom(_, _)
stripAnsiCursorFrom(s, i) ==
    LET \* j is the position after the parameters of a code that starts at i
        skip(j) ==
            IF /\ s[i] = ESC
               /\ i + 1 <= Len(s) /\ s[i + 1] = "["
               /\ j <= Len(s) /\ s[j] \in AnsiFinals
            THEN stripAnsiCursorFrom(s, j + 1)
            ELSE <<s[i]>> \o stripAnsiCursorFrom(s, i + 1)
    IN  IF i > Len(s) THEN <<>> ELSE skip(AnsiParamsEnd(s, i + 2))

\* a cleaning that looks for the last carriage return without dropping the
\* trailing ones first
cleanLogLineNoTrim(line) ==
    LET after(t, idx) == IF idx # 0 THEN SubSeq(t, idx + 1, Len(t)) ELSE t
        lastReturn(t) == after(t, LastIndexCR(t))
    IN  lastReturn(stripAnsiCursorFrom(line, 1))

cleanLogLine(line) ==
    LET after(t, idx) == IF idx # 0 THEN SubSeq(t, idx + 1, Len(t)) ELSE t
        lastReturn(t) == after(t, LastIndexCR(t))
    IN  lastReturn(TrimRightCR(stripAnsiCursorFrom(line, 1)))

\* runeSlice(s, start, end) with 0-based half-open bounds
runeSlice(s, start, end) ==
    LET slice(st0, en) == SubSeq(s, (IF st0 > en THEN en ELSE st0) + 1, en)
    IN  slice(IF start < 0 THEN 0 ELSE start, IF end > Len(s) THEN Len(s) ELSE end)

runeLen(s) == Len(s)

----------------------------------------------------------------------------
(* wordwrap.String(line, width): the writer keeps the output, the pending  *)
(* spaces, the pending word and the length of the current output line.     *)

WWInit == [buf |-> <<>>, space |-> <<>>, word |-> <<>>, lineLen |-> 0]

WWaddSpace(w) ==
    [w EXCEPT !.lineLen = w.lineLen + Len(w.space),
              !.buf = w.buf \o w.space,
              !.space = <<>>]

WWaddWord(w) ==
    LET flush(s) == [s EXCEPT !.lineLen = s.lineLen + Len(s.word),
                              !.buf = s.buf \o s.word,
                              !.word = <<>>]
    IN  IF Len(w.word) > 0 THEN flush(WWaddSpace(w)) ELSE w

WWaddNewLine(w) ==
    [w EXCEPT !.buf = Append(w.buf, NL), !.lineLen = 0, !.space = <<>>]

WWstep(w, c, limit) ==
    LET spaced(a) == [a EXCEPT !.space = Append(a.space, c)]
        lettered(a) ==
            IF a.lineLen + Len(a.space) + Len(a.word) > limit /\ Len(a.word) < limit
            THEN WWaddNewLine(a)
            ELSE a
    IN  IF c = SP THEN spaced(WWaddWord(w))
        ELSE lettered([w EXCEPT !.word = Append(w.word, c)])

RECURSIVE WWrun(_, _, _)
\* the writer takes the runes one by one; Close flushes the pending word
WWrun(w, s, limit) ==
    IF w.lineLen >= 0 /\ s # <<>>
    THEN WWrun(WWstep(w, Head(s), limit), Tail(s), limit)
    ELSE WWaddWord(w).buf

wordwrapString(line, width) == WWrun(WWInit, line, width)

wrapLine(line, width) ==
    IF line = <<>> THEN <<>>
    ELSE IF width <= 0 THEN line
    ELSE wordwrapString(line, width)

visualLineCount(block) == CountNL(block) + 1

RECURSIVE flattenWrappedLines(_)
flattenWrappedLines(wrapped) ==
    IF wrapped = <<>> THEN <<>>
    ELSE SplitNL(Head(wrapped)) \o flattenWrappedLines(Tail(wrapped))

----------------------------------------------------------------------------
(* The viewport of a pane: Width, Height, YOffset and the number of lines  *)
(* of its content (the viewport splits the content at line breaks).        *)

maxYOffset(v) == Max(0, v.nlines - v.Height)
AtBottom(v) == v.YOffset >= maxYOffset(v)
AtTop(v) == v.YOffset <= 0
SetYOffset(v, n) == [v EXCEPT !.YOffset = Max(0, Min(n, maxYOffset(v)))]
GotoBottom(v) == SetYOffset(v, maxYOffset(v))
GotoTop(v) == IF AtTop(v) THEN v ELSE SetYOffset(v, 0)
SetContent(v, s) ==
    LET clamped(v1) == IF v1.YOffset > v1.nlines - 1 THEN GotoBottom(v1) ELSE v1
    IN  clamped([v EXCEPT !.nlines = CountNL(s) + 1])

----------------------------------------------------------------------------
(* Search decoration *)

LowerOf(c) == IF c = "A" THEN "a" ELSE IF c = "B" THEN "b" ELSE c
UpperOf(c) == IF c = "a" THEN "A" ELSE IF c = "b" THEN "B" ELSE c
ToLower(s) == [i \in 1..Len(s) |-> LowerOf(s[i])]
ToUpper(s) == [i \in 1..Len(s) |-> UpperOf(s[i])]

IsSpaceChar(c) == c \in {SP, CR, NL}

RECURSIVE TrimLeftSpace(_)
TrimLeftSpace(s) ==
    IF s # <<>> /\ IsSpaceChar(Head(s)) THEN TrimLeftSpace(Tail(s)) ELSE s

RECURSIVE TrimRightSpace(_)
TrimRightSpace(s) ==
    IF s # <<>> /\ IsSpaceChar(s[Len(s)])
    THEN TrimRightSpace(SubSeq(s, 1, Len(s) - 1))
    ELSE s

TrimSpace(s) == TrimRightSpace(TrimLeftSpace(s))

\* strings.Index(s[from..], needle): the 1-based start of the first match at or
\* after position from, 0 when there is none
IndexFrom(s, needle, from) ==
    LET first(starts) == IF starts = {} THEN 0
                         ELSE CHOOSE i \in starts : \A j \in starts : i <= j
    IN  first({i \in from..(Len(s) - Len(needle) + 1) :
                  SubSeq(s, i, i + Len(needle) - 1) = needle})

\* strings.Contains
Contains(s, needle) == IndexFrom(s, needle, 1) # 0

\* searchHighlightStyle.Render(match): bold colours and one cell of padding
searchHighlightRender(match) == <<SP>> \o match \o <<SP>>

RECURSIVE highlightFrom(_, _, _)
highlightFrom(line, needle, i) ==
    LET \* start is the position of the next match, 0 when there is none
        upTo(start) ==
            IF start = 0 THEN SubSeq(line, i, Len(line))
            ELSE SubSeq(line, i, start - 1)
                 \o searchHighlightRender(
                        ToUpper(SubSeq(line, start, start + Len(needle) - 1)))
                 \o highlightFrom(line, needle, start + Len(needle))
    IN  IF i > Len(line) THEN <<>>
        ELSE upTo(IndexFrom(ToLower(line), needle, i))

highlightMatches(line, needle) ==
    IF needle = <<>> \/ TrimSpace(line) = <<>> THEN line
    ELSE highlightFrom(line, needle, 1)

renderLineForSearch(line, needle) ==
    IF needle = <<>> THEN line ELSE highlightMatches(line, needle)

\* tailSelectionStyle.Render: colours only, the characters are unchanged
tailSelectionRender(s) == s

renderDecoratedLine(line, needle, selStart, selEnd, selected) ==
    IF ~selected THEN renderLineForSearch(line, needle)
    ELSE renderLineForSearch(runeSlice(line, 0, selStart), needle)
         \o tailSelectionRender(renderLineForSearch(runeSlice(line, selStart, selEnd), needle))
         \o renderLineForSearch(runeSlice(line, selEnd, runeLen(line)), needle)

----------------------------------------------------------------------------
(* Selection *)

NoPoint == [line |-> 0, col |-> 0]

clearSelection(m) ==
    [m EXCEPT !.selectionPane = "",
              !.selectionAnchor = NoPoint,
              !.selectionCursor = NoPoint,
              !.selecting = FALSE]

\* the pair (start, end) with start <= end
normalizeSelection(a, b) ==
    IF a.line > b.line \/ (a.line = b.line /\ a.col > b.col)
    THEN <<b, a>>
    ELSE <<a, b>>

paneVisualLines(m, pane) ==
    IF pane \in Panes THEN flattenWrappedLines(m.wrapped[pane]) ELSE <<>>

\* an adjustment that shifts the selection without clamping or clearing it
adjustSelectionUnclamped(m, pane, removedVisualLines) ==
    IF removedVisualLines <= 0 \/ m.selectionPane # pane THEN m
    ELSE [m EXCEPT !.selectionAnchor.line = @ - removedVisualLines,
                   !.selectionCursor.line = @ - removedVisualLines]

adjustSelectionAfterTrim(m, pane, removedVisualLines) ==
    IF removedVisualLines <= 0 \/ m.selectionPane # pane THEN m
    ELSE LET a == m.selectionAnchor.line - removedVisualLines
             c == m.selectionCursor.line - removedVisualLines
         IN  IF a < 0 /\ c < 0 THEN clearSelection(m)
             ELSE [m EXCEPT !.selectionAnchor.line = IF a < 0 THEN 0 ELSE a,
                            !.selectionCursor.line = IF c < 0 THEN 0 ELSE c]

\* <<selStart, selEnd, selected>> for visual line lineIndex (0-based) of pane
selectionBoundsForLine(m, pane, lineIndex, line) ==
    LET ordered(selStart, selEnd) == <<selStart, selEnd, selEnd > selStart>>
        clamped(s1, e1) == ordered(Min(s1, e1), Max(s1, e1))
        columns(s0, e0, lineLen) ==
            clamped(Max(0, Min(s0, lineLen)), Max(0, Min(e0, lineLen)))
        between(start, end) ==
            IF lineIndex < start.line \/ lineIndex > end.line THEN <<0, 0, FALSE>>
            ELSE columns(IF lineIndex = start.line THEN start.col ELSE 0,
                         IF lineIndex = end.line THEN end.col ELSE runeLen(line),
                         runeLen(line))
        within(ne) == between(ne[1], ne[2])
    IN  IF m.selectionPane # pane THEN <<0, 0, FALSE>>
        ELSE within(normalizeSelection(m.selectionAnchor, m.selectionCursor))

\* a selected text that takes every line of the range in full
selectedWholeLines(m) ==
    LET range(lines, startLine, endLine) ==
            IF Len(lines) = 0 \/ startLine > endLine THEN <<>>
            ELSE JoinNL(SubSeq(lines, startLine + 1, endLine + 1))
        of(lines, ne) ==
            range(lines, Max(0, ne[1].line), Min(Len(lines) - 1, ne[2].line))
    IN  IF m.selectionPane = "" THEN <<>>
        ELSE of(paneVisualLines(m, m.selectionPane),
                normalizeSelection(m.selectionAnchor, m.selectionCursor))

\* the text of the selection; the lines are joined by line breaks
selectedText(m) ==
    LET \* the selected part of line i of lines (0-based), with its line break
        piece(lines, ne, startLine, endLine, i) ==
            LET cut(line, s1, e1) == runeSlice(line, Min(s1, e1), Max(s1, e1))
                part(line, s0, e0, lineLen) ==
                    cut(line, Max(0, Min(s0, lineLen)), Max(0, Min(e0, lineLen)))
            IN  part(lines[i + 1],
                     IF i = startLine THEN ne[1].col ELSE 0,
                     IF i = endLine THEN ne[2].col ELSE runeLen(lines[i + 1]),
                     runeLen(lines[i + 1]))
                \o (IF i < endLine THEN <<NL>> ELSE <<>>)
        RECURSIVE build(_, _, _, _, _)
        build(lines, ne, startLine, endLine, i) ==
            IF i > endLine THEN <<>>
            ELSE piece(lines, ne, startLine, endLine, i)
                 \o build(lines, ne, startLine, endLine, i + 1)
        range(lines, ne, startLine, endLine) ==
            IF startLine > endLine THEN <<>>
            ELSE build(lines, ne, startLine, endLine, startLine)
        of(lines, ne) ==
            IF Len(lines) = 0 THEN <<>>
            ELSE range(lines, ne,
                       IF ne[1].line < 0 THEN 0 ELSE ne[1].line,
                       IF ne[2].line >= Len(lines) THEN Len(lines) - 1
                       ELSE ne[2].line)
    IN  IF m.selectionPane = "" THEN <<>>
        ELSE of(paneVisualLines(m, m.selectionPane),
                normalizeSelection(m.selectionAnchor, m.selectionCursor))

----------------------------------------------------------------------------
(* Render cache and layout *)

activeSearchTerm(m) ==
    LET typed(current) == IF current # <<>> THEN current ELSE TrimSpace(m.lastSearch)
    IN  IF m.inSearchMode THEN typed(TrimSpace(m.searchValue))
        ELSE TrimSpace(m.lastSearch)

\* the decorated visual lines of the blocks from block number k on; lineIndex is
\* the 0-based index of the first of them among the pane's visual lines
RECURSIVE renderBlocks(_, _, _, _, _, _)

\* the line decorated with the search matches and the selection bounds b
decorateWithBounds(line, needle, b) == renderDecoratedLine(line, needle, b[1], b[2], b[3])

\* the decorated lines of block k, then those of the blocks after it
renderBlock(m, pane, wrapped, needle, k, lineIndex, lines) ==
    [i \in 1..Len(lines) |->
        decorateWithBounds(lines[i], needle,
                           selectionBoundsForLine(m, pane, lineIndex + i - 1, lines[i]))]
    \o renderBlocks(m, pane, wrapped, needle, k + 1, lineIndex + Len(lines))

renderBlocks(m, pane, wrapped, needle, k, lineIndex) ==
    IF k > Len(wrapped) THEN <<>>
    ELSE renderBlock(m, pane, wrapped, needle, k, lineIndex, SplitNL(wrapped[k]))

\* the builder after Reset and the write of every visual line
rebuildPaneContent(m, pane, wrapped, needle) ==
    JoinNL(renderBlocks(m, pane, wrapped, needle, 1, 0))

\* the pane shows the content b
showContent(m, pane, b) ==
    [m EXCEPT !.builder[pane] = b, !.view[pane] = SetContent(m.view[pane], b)]

\* the content of the pane built again from its wrapped blocks
rebuildPane(m, pane) ==
    showContent(m, pane,
                rebuildPaneContent(m, pane, m.wrapped[pane],
                                   ToLower(activeSearchTerm(m))))

refreshPane(m, pane) ==
    rebuildPane([m EXCEPT !.wrapped[pane] =
                     [i \in 1..Len(m.lines[pane]) |->
                         wrapLine(m.lines[pane][i], m.view[pane].Width)]],
                pane)

\* the panes of ps refreshed one after the other
RECURSIVE refreshPanes(_, _)
refreshPanes(m, ps) ==
    IF ps = <<>> THEN m ELSE refreshPanes(refreshPane(m, Head(ps)), Tail(ps))

\* refreshStdoutContent, then refreshStderrContent
refreshViewportContent(m) == refreshPanes(m, <<"stdout", "stderr">>)

refreshPaneContent(m, pane) ==
    refreshPanes(m, IF pane \in Panes THEN <<pane>> ELSE <<>>)

\* a layout that takes the sizes as they come, without a minimum
recalculateLayoutUnclamped(m) ==
    IF m.width = 0 \/ m.height = 0 THEN m
    ELSE LET vpHeight == m.height - 5
                         - (IF m.inSearchMode THEN searchOverlayHeight ELSE 0)
             bothStacked == m.mode = TailModeBoth /\ m.stacked
             bothSide == m.mode = TailModeBoth /\ ~m.stacked
             m1 == [m EXCEPT
                      !.view["stdout"].Width =
                          IF bothSide THEN (m.width - 6) \div 2 ELSE m.width - 4,
                      !.view["stdout"].Height =
                          IF bothStacked THEN vpHeight \div 2 ELSE vpHeight,
                      !.view["stderr"].Width =
                          IF bothSide THEN (m.width - 6) - ((m.width - 6) \div 2)
                          ELSE m.width - 4,
                      !.view["stderr"].Height =
                          IF bothStacked THEN vpHeight - (vpHeight \div 2)
                          ELSE vpHeight]
         IN  [refreshViewportContent(m1) EXCEPT !.searchWidth = Max(20, m.width - 10)]

recalculateLayout(m) ==
    IF m.width = 0 \/ m.height = 0 THEN m
    ELSE LET vp0 == m.height - 5 - (IF m.inSearchMode THEN searchOverlayHeight ELSE 0)
             vpHeight == IF vp0 < 5 THEN 5 ELSE vp0
             bothStacked == m.mode = TailModeBoth /\ m.stacked
             bothSide == m.mode = TailModeBoth /\ ~m.stacked
             availStacked == Max(10, m.width - 4)
             availSide == Max(20, m.width - 6)
             availSingle == Max(10, m.width - 4)
             stdoutWidth == IF bothStacked THEN availStacked
                            ELSE IF bothSide THEN availSide \div 2
                            ELSE availSingle
             stderrWidth == IF bothStacked THEN availStacked
                            ELSE IF bothSide THEN availSide - (availSide \div 2)
                            ELSE availSingle
             stdoutHeight == IF bothStacked THEN vpHeight \div 2 ELSE vpHeight
             stderrHeight == IF bothStacked THEN vpHeight - (vpHeight \div 2)
                             ELSE vpHeight
             m1 == [m EXCEPT !.view["stdout"].Width = stdoutWidth,
                             !.view["stdout"].Height = stdoutHeight,
                             !.view["stderr"].Width = stderrWidth,
                             !.view["stderr"].Height = stderrHeight]
         IN  [refreshViewportContent(m1) EXCEPT !.searchWidth = Max(20, m.width - 10)]

\* viewport.New(width, height) followed by SetContent("Initializing ... tail...")
NewViewport(width, height) ==
    [Width |-> width, Height |-> height, YOffset |-> 0, nlines |-> 1]

NewTailModel(stdoutPath, stderrPath, width, height, mode) ==
    LET vpHeight == Max(5, height - 5)
        avail == Max(20, width - 4)
        fullWidth == Max(10, width - 2)
        stdoutWidth == IF mode = TailModeBoth THEN avail \div 2 ELSE fullWidth
        stderrWidth == IF mode = TailModeBoth THEN avail - (avail \div 2) ELSE fullWidth
        m == [ path |-> [p \in Panes |-> IF p = "stdout" THEN stdoutPath ELSE stderrPath],
               mode |-> mode,
               view |-> [p \in Panes |->
                            NewViewport(IF p = "stdout" THEN stdoutWidth ELSE stderrWidth,
                                        vpHeight)],
               lines |-> [p \in Panes |-> <<>>],
               wrapped |-> [p \in Panes |-> <<>>],
               builder |-> [p \in Panes |-> <<>>],
               copyMode |-> FALSE,
               prevMode |-> TailModeBoth,
               prevShowBorders |-> FALSE,
               prevStacked |-> FALSE,
               prevMouseEnabled |-> FALSE,
               prevActivePane |-> 0,
               reader |-> [p \in Panes |-> NoHandle],
               pipe |-> [p \in Panes |-> NoHandle],
               cmd |-> [p \in Panes |-> NoHandle],
               paused |-> FALSE,
               following |-> TRUE,
               width |-> width,
               height |-> height,
               activePane |-> 0,
               stacked |-> FALSE,
               showBorders |-> TRUE,
               mouseEnabled |-> FALSE,
               searchValue |-> <<>>,
               searchWidth |-> IF width > 0 THEN Max(20, width - 10) ELSE 30,
               inSearchMode |-> FALSE,
               lastSearch |-> <<>>,
               selectionPane |-> "",
               selectionAnchor |-> NoPoint,
               selectionCursor |-> NoPoint,
               selecting |-> FALSE,
               crashed |-> FALSE ]
    IN  recalculateLayout(m)

----------------------------------------------------------------------------
(* Bounded line buffer *)

\* an append that never evicts
appendUnbounded(seq, x) == Append(seq, x)

\* an append that drops the new entry when the buffer is full
appendDropNewest(seq, x) ==
    IF MaxLogLines > 0 /\ Len(seq) + 1 > MaxLogLines THEN seq ELSE Append(seq, x)

\* append, then evict the oldest entry when the capacity is exceeded
appendBounded(seq, x) ==
    LET s == Append(seq, x)
    IN  IF MaxLogLines > 0 /\ Len(s) > MaxLogLines THEN Tail(s) ELSE s

\* the visual lines the append of block x to wrapped evicts
evictedVisualLines(wrapped, x) ==
    LET s == Append(wrapped, x)
    IN  IF MaxLogLines > 0 /\ Len(s) > MaxLogLines THEN visualLineCount(s[1]) ELSE 0

trimmedByAppend(wrapped) == MaxLogLines > 0 /\ Len(wrapped) + 1 > MaxLogLines

\* a scroll after an append that never goes to the bottom
scrollAfterAppendNoStick(v, stickToBottom, visualLinesRemoved) ==
    IF visualLinesRemoved > 0 /\ v.YOffset > 0
    THEN [v EXCEPT !.YOffset = Max(0, v.YOffset - visualLinesRemoved)]
    ELSE v

\* the scroll offset of the pane after an append
scrollAfterAppend(v, stickToBottom, visualLinesRemoved) ==
    IF stickToBottom THEN GotoBottom(v)
    ELSE IF visualLinesRemoved > 0 /\ v.YOffset > 0
    THEN [v EXCEPT !.YOffset = Max(0, v.YOffset - visualLinesRemoved)]
    ELSE v

\* the pane shows the content b after an append: the viewport takes b, then
\* goes to its bottom or moves up by the evicted lines
showAppended(m, pane, b, stickToBottom, visualLinesRemoved) ==
    [m EXCEPT !.builder[pane] = b,
              !.view[pane] = scrollAfterAppend(SetContent(m.view[pane], b),
                                               stickToBottom, visualLinesRemoved)]

\* the content of the pane after the append of wrappedLine: built again when
\* the append evicted a block, extended by the new block otherwise
\* m is the model after the trim and the adjustment of the selection
renderAppended(m, pane, wrappedLine, trimmedWrapped, visualLinesRemoved) ==
    showAppended(m, pane,
                 IF trimmedWrapped
                 THEN rebuildPaneContent(m, pane, m.wrapped[pane],
                                         ToLower(activeSearchTerm(m)))
                 ELSE (IF Len(m.builder[pane]) > 0 THEN Append(m.builder[pane], NL)
                       ELSE m.builder[pane])
                      \o renderLineForSearch(wrappedLine,
                                             ToLower(activeSearchTerm(m))),
                 m.following /\ ~m.paused /\ AtBottom(m.view[pane]),
                 visualLinesRemoved)

\* both buffers take the line, the selection follows the eviction
appendWrapped(m, pane, cleanLine, wrappedLine) ==
    renderAppended(
        adjustSelectionAfterTrim(
            [m EXCEPT !.lines[pane] = appendBounded(m.lines[pane], cleanLine),
                      !.wrapped[pane] = appendBounded(m.wrapped[pane], wrappedLine)],
            pane, evictedVisualLines(m.wrapped[pane], wrappedLine)),
        pane, wrappedLine, trimmedByAppend(m.wrapped[pane]),
        evictedVisualLines(m.wrapped[pane], wrappedLine))

appendLogLine(m, pane, text) ==
    appendWrapped(m, pane, cleanLogLine(text),
                  wrapLine(cleanLogLine(text), m.view[pane].Width))

----------------------------------------------------------------------------
(* Commands and messages.  A command is a task that runs off the loop and  *)
(* delivers one message; both are records of the bag pool.                  *)

startTailCmd(pane, path) == [kind |-> "start", pane |-> pane, path |-> path]
waitForLine(pane, reader) == [kind |-> "wait", pane |-> pane, reader |-> reader]
cleanupProcessCmd(cmd, pipe) == [kind |-> "cleanup", cmd |-> cmd, pipe |-> pipe]
osc52CopyCmd(text) == [kind |-> "osc52", text |-> text]

tailStartMsg(pane, initialLines, reader, cmd, pipe, startErr) ==
    [kind |-> "tailStartMsg", pane |-> pane, initialLines |-> initialLines,
     reader |-> reader, cmd |-> cmd, pipe |-> pipe, startErr |-> startErr]

\* err is "nil", "EOF" or the text of another error
logLineMsg(pane, line, err, terminal) ==
    [kind |-> "logLineMsg", pane |-> pane, line |-> line, err |-> err,
     terminal |-> terminal]

KeyMsg(k) == [kind |-> "key", key |-> k]
WindowSizeMsg(w, h) == [kind |-> "resize", Width |-> w, Height |-> h]
MouseMsg(ev, x, y) == [kind |-> "mouse", ev |-> ev, X |-> x, Y |-> y]

\* the diagnostic lines of the program, as short lines of the model
EOFLine == <<"E", "O", "F">>
ErrLine == <<"E", "r", "r">>
NoPathLines == << <<"N", "o">>, <<>> >>

\* TailModel.Init
TailInit(m) ==
    (IF m.mode \in {TailModeBoth, TailModeStdout}
     THEN <<startTailCmd("stdout", m.path["stdout"])>> ELSE <<>>)
    \o (IF m.mode \in {TailModeBoth, TailModeStderr}
        THEN <<startTailCmd("stderr", m.path["stderr"])>> ELSE <<>>)

----------------------------------------------------------------------------
(* TailModel.Update: each operator gives [m |-> the model after, cmds |->  *)
(* the commands returned].                                                 *)

Ret(m, cmds) == [m |-> m, cmds |-> cmds]

\* the pane the keys and the search act on
activeViewPane(m) ==
    IF m.mode = TailModeStdout THEN "stdout"
    ELSE IF m.mode = TailModeStderr THEN "stderr"
    ELSE IF m.activePane = 0 THEN "stdout" ELSE "stderr"

\* the last N of the cleaned lines of an initial batch
initialBuffer(initialLines) ==
    LET newest(c) == IF MaxLogLines > 0 /\ Len(c) > MaxLogLines
                     THEN SubSeq(c, Len(c) - MaxLogLines + 1, Len(c))
                     ELSE c
    IN  newest([i \in 1..Len(initialLines) |-> cleanLogLine(initialLines[i])])

\* the handles of a pane set to those of a start result
attachHandles(m, pane, reader, cmd, pipe) ==
    [m EXCEPT !.reader[pane] = reader, !.cmd[pane] = cmd, !.pipe[pane] = pipe]

\* the handles of a pane set to nil
detachHandles(m, pane) ==
    [m EXCEPT !.reader[pane] = NoHandle, !.cmd[pane] = NoHandle,
              !.pipe[pane] = NoHandle]

UpdateTailStart(m, msg) ==
    LET p == msg.pane
        waiting(m3) == Ret(m3, <<waitForLine(p, m3.reader[p])>>)
        attached(m2) ==
            IF msg.startErr THEN Ret(m2, <<>>)
            ELSE waiting(attachHandles(m2, p, msg.reader, msg.cmd, msg.pipe))
        shown(m1) ==
            attached(IF m1.following /\ ~m1.paused
                     THEN [m1 EXCEPT !.view[p] = GotoBottom(m1.view[p])]
                     ELSE m1)
    IN  shown(refreshPane([m EXCEPT !.lines[p] = initialBuffer(msg.initialLines)], p))

\* the lines a line event appends: its content, then its diagnostic
linesOfEvent(msg) ==
    (IF msg.err = "nil" \/ msg.line # <<>> THEN <<msg.line>> ELSE <<>>)
    \o (IF msg.err = "nil" THEN <<>>
        ELSE IF msg.err = "EOF" THEN <<EOFLine>> ELSE <<ErrLine>>)

RECURSIVE appendAll(_, _, _)
appendAll(m, pane, ls) ==
    IF ls = <<>> THEN m
    ELSE appendAll(appendLogLine(m, pane, Head(ls)), pane, Tail(ls))

\* a terminal branch that hands the handles to a cleanup task and keeps them
releaseKeepingHandles(m, pane) ==
    Ret(m, <<cleanupProcessCmd(m.cmd[pane], m.pipe[pane])>>)

\* the terminal branch: detach the handles, then hand them to a cleanup task
releaseOnTerminal(m, pane) ==
    Ret(detachHandles(m, pane), <<cleanupProcessCmd(m.cmd[pane], m.pipe[pane])>>)

UpdateLogLine(m, msg) ==
    LET p == msg.pane
        appended(m1) ==
            IF ~msg.terminal THEN Ret(m1, <<waitForLine(p, m1.reader[p])>>)
            ELSE releaseOnTerminal(m1, p)
    IN  appended(appendAll(m, p, linesOfEvent(msg)))

UpdateWindowSize(m, msg) ==
    LET width == IF msg.Width <= 0 THEN (IF m.width > 0 THEN m.width ELSE 80)
                 ELSE msg.Width
        height == IF msg.Height <= 0 THEN (IF m.height > 0 THEN m.height ELSE 24)
                  ELSE msg.Height
        m1 == IF width # m.width \/ height # m.height THEN clearSelection(m) ELSE m
    IN  Ret(recalculateLayout([m1 EXCEPT !.width = width, !.height = height]), <<>>)

\* a Quit that releases the stdout pane only
UpdateQuitStdoutOnly(m) ==
    Ret(detachHandles(m, "stdout"),
        <<cleanupProcessCmd(m.cmd["stdout"], m.pipe["stdout"])>>)

\* the Quit key: detach both panes, one cleanup task for each
UpdateQuit(m) ==
    Ret(detachHandles(detachHandles(m, "stdout"), "stderr"),
        <<cleanupProcessCmd(m.cmd["stdout"], m.pipe["stdout"]),
          cleanupProcessCmd(m.cmd["stderr"], m.pipe["stderr"])>>)

----------------------------------------------------------------------------
(* Search *)

\* the first index of is, taken in the order given by the sequence, whose block
\* contains the query; -1 when there is none
RECURSIVE firstMatch(_, _, _)
firstMatch(lines, query, is) ==
    IF is = <<>> THEN -1
    ELSE IF Contains(ToLower(lines[Head(is) + 1]), query) THEN Head(is)
    ELSE firstMatch(lines, query, Tail(is))

\* the indices from..to, ascending, and to..from descending
Ascending(from, to) == [i \in 1..Max(0, to - from + 1) |-> from + i - 1]
Descending(from, to) == [i \in 1..Max(0, from - to + 1) |-> from - i + 1]

\* the order in which performSearch visits the indices of lines
searchOrder(n, currentY, forward) ==
    IF forward
    THEN LET start == IF currentY + 1 >= n THEN 0 ELSE currentY + 1
         IN  Ascending(start, n - 1) \o Ascending(0, start - 1)
    ELSE LET start == IF currentY - 1 < 0 THEN n - 1 ELSE currentY - 1
         IN  Descending(start, 0) \o Descending(n - 1, start + 1)

performSearch(m, query0, forward) ==
    IF query0 = <<>> THEN m
    ELSE LET query == ToLower(query0)
             p == activeViewPane(m)
             lines == m.wrapped[p]
             order == searchOrder(Len(lines), m.view[p].YOffset, forward)
         IN  IF Len(lines) = 0 THEN m
             ELSE IF \E k \in 1..Len(order) : order[k] >= Len(lines)
             THEN [m EXCEPT !.crashed = TRUE]
             ELSE LET foundIndex == firstMatch(lines, query, order)
                  IN  IF foundIndex # -1
                      THEN [m EXCEPT !.following = FALSE,
                                     !.view[p].YOffset = foundIndex]
                      ELSE m

----------------------------------------------------------------------------
(* Copy mode *)

\* an entry into copy mode that keeps the panes and the borders as they are
enterCopyModeKeepLayout(m) ==
    IF m.copyMode THEN Ret(m, <<>>)
    ELSE Ret(recalculateLayout([clearSelection(m) EXCEPT
                                   !.copyMode = TRUE,
                                   !.following = FALSE,
                                   !.prevMode = m.mode,
                                   !.prevShowBorders = m.showBorders,
                                   !.prevStacked = m.stacked,
                                   !.prevMouseEnabled = m.mouseEnabled,
                                   !.prevActivePane = m.activePane,
                                   !.mouseEnabled = FALSE]), <<>>)

enterCopyMode(m) ==
    IF m.copyMode THEN Ret(m, <<>>)
    ELSE LET m1 == [clearSelection(m) EXCEPT
                       !.copyMode = TRUE,
                       !.following = FALSE,
                       !.prevMode = m.mode,
                       !.prevShowBorders = m.showBorders,
                       !.prevStacked = m.stacked,
                       !.prevMouseEnabled = m.mouseEnabled,
                       !.prevActivePane = m.activePane,
                       !.mode = IF m.mode = TailModeBoth
                                THEN (IF m.activePane = 1 THEN TailModeStderr
                                      ELSE TailModeStdout)
                                ELSE m.mode,
                       !.showBorders = FALSE]
             laidOut(m2) ==
                 IF m2.prevMouseEnabled
                 THEN Ret([m2 EXCEPT !.mouseEnabled = FALSE],
                          <<[kind |-> "DisableMouse"]>>)
                 ELSE Ret(m2, <<>>)
         IN  laidOut(recalculateLayout(m1))

\* an exit from copy mode that keeps the mode copy mode has ended with
exitCopyModeKeepMode(m) ==
    IF ~m.copyMode THEN Ret(m, <<>>)
    ELSE Ret(recalculateLayout([m EXCEPT !.copyMode = FALSE,
                                         !.showBorders = m.prevShowBorders,
                                         !.stacked = m.prevStacked,
                                         !.activePane = m.prevActivePane,
                                         !.mouseEnabled = m.prevMouseEnabled]), <<>>)

exitCopyMode(m) ==
    IF ~m.copyMode THEN Ret(m, <<>>)
    ELSE LET laidOut(m1) ==
                 IF m1.prevMouseEnabled
                 THEN Ret([m1 EXCEPT !.mouseEnabled = TRUE],
                          <<[kind |-> "EnableMouseCellMotion"]>>)
                 ELSE Ret(m1, <<>>)
         IN  laidOut(recalculateLayout([m EXCEPT !.copyMode = FALSE,
                                                 !.mode = m.prevMode,
                                                 !.showBorders = m.prevShowBorders,
                                                 !.stacked = m.prevStacked,
                                                 !.activePane = m.prevActivePane]))

----------------------------------------------------------------------------
(* Keys *)

\* viewport.Update for a key: the pager keys of the viewport's key map
viewportKey(v, k) ==
    IF k \in {"pgdown", " ", "f"}
    THEN (IF AtBottom(v) THEN v ELSE SetYOffset(v, v.YOffset + v.Height))
    ELSE IF k \in {"pgup", "b"}
    THEN (IF AtTop(v) THEN v ELSE SetYOffset(v, v.YOffset - v.Height))
    ELSE IF k \in {"d", "ctrl+d"}
    THEN (IF AtBottom(v) THEN v ELSE SetYOffset(v, v.YOffset + (v.Height \div 2)))
    ELSE IF k \in {"u", "ctrl+u"}
    THEN (IF AtTop(v) THEN v ELSE SetYOffset(v, v.YOffset - (v.Height \div 2)))
    ELSE IF k \in {"down", "j"}
    THEN (IF AtBottom(v) THEN v ELSE SetYOffset(v, v.YOffset + 1))
    ELSE IF k \in {"up", "k"}
    THEN (IF AtTop(v) THEN v ELSE SetYOffset(v, v.YOffset - 1))
    ELSE v

\* an end of the key branch that leaves the follow flag alone
keyFallThroughKeepFollow(r, k) ==
    Ret([r.m EXCEPT !.view[activeViewPane(r.m)] =
                        viewportKey(r.m.view[activeViewPane(r.m)], k)], r.cmds)

\* the end of the key branch: scroll keys disable follow, then the key goes to
\* the viewport of the active pane
keyFallThrough(r, k) ==
    LET m1 == IF k \in {"up", "k", "pgup", "wheel up"}
              THEN [r.m EXCEPT !.following = FALSE] ELSE r.m
        p == activeViewPane(m1)
    IN  Ret([m1 EXCEPT !.view[p] = viewportKey(m1.view[p], k)], r.cmds)

keyClear(m) ==
    LET m1 == clearSelection([m EXCEPT !.lines = [p \in Panes |-> <<>>],
                                       !.wrapped = [p \in Panes |-> <<>>],
                                       !.builder = [p \in Panes |-> <<>>]])
    IN  [m1 EXCEPT !.view = [p \in Panes |-> SetContent(m1.view[p], <<>>)]]

keyFollow(m) ==
    LET m1 == [m EXCEPT !.following = ~m.following]
    IN  IF m1.following
        THEN [m1 EXCEPT !.view = [p \in Panes |-> GotoBottom(m1.view[p])]]
        ELSE m1

keyShowSingle(m, mode) ==
    LET m1 == [m EXCEPT !.mode = mode]
    IN  Ret(recalculateLayout(IF m1.mouseEnabled
                              THEN [m1 EXCEPT !.mouseEnabled = FALSE] ELSE m1),
            IF m1.mouseEnabled THEN <<[kind |-> "DisableMouse"]>> ELSE <<>>)

\* both panes shown after copy mode, if it was on, has returned r
showBoth(r) == Ret(recalculateLayout([r.m EXCEPT !.mode = TailModeBoth]), r.cmds)

keyShowBoth(m) == showBoth(IF m.copyMode THEN exitCopyMode(m) ELSE Ret(m, <<>>))

keyCopySelection(m) ==
    LET selected == selectedText(m)
    IN  Ret(m, IF selected # <<>> THEN <<osc52CopyCmd(selected)>> ELSE <<>>)

keyCopyAll(m) ==
    LET lines == m.lines[activeViewPane(m)]
    IN  Ret(m, IF Len(lines) > 0 THEN <<osc52CopyCmd(JoinNL(lines))>> ELSE <<>>)

keyViewPager(m) ==
    LET path == m.path[activeViewPane(m)]
    IN  Ret(m, IF path # "" THEN <<[kind |-> "pager", path |-> path]>> ELSE <<>>)

keySearch(m) ==
    Ret(recalculateLayout([m EXCEPT !.inSearchMode = TRUE, !.searchValue = <<>>]),
        <<>>)

\* a Bottom key that moves both panes to their bottom, as the Follow key does
keyBottomBothPanes(m) ==
    Ret([m EXCEPT !.following = TRUE,
                  !.view = [p \in Panes |-> GotoBottom(m.view[p])]], <<>>)

\* the Bottom key: follow again, the active pane goes to its bottom, and the
\* key is not passed to the viewport
keyBottom(m) ==
    Ret([m EXCEPT !.following = TRUE,
                  !.view[activeViewPane(m)] = GotoBottom(m.view[activeViewPane(m)])],
        <<>>)

\* the Top key: follow ends, the active pane goes to its top
keyTop(m) ==
    Ret([m EXCEPT !.following = FALSE,
                  !.view[activeViewPane(m)] = GotoTop(m.view[activeViewPane(m)])],
        <<>>)

UpdateKey(m, k) ==
    IF k \in {"q", "esc"} THEN UpdateQuit(m)
    ELSE IF k = "p" THEN keyFallThrough(Ret([m EXCEPT !.paused = ~m.paused], <<>>), k)
    ELSE IF k = "f" THEN keyFallThrough(Ret(keyFollow(m), <<>>), k)
    ELSE IF k = "c" THEN keyFallThrough(Ret(keyClear(m), <<>>), k)
    ELSE IF k \in {"b", "G"} THEN keyBottom(m)
    ELSE IF k \in {"t", "home", "g"} THEN keyTop(m)
    ELSE IF k = "y"
    THEN keyFallThrough(IF m.copyMode THEN exitCopyMode(m) ELSE enterCopyMode(m), k)
    ELSE IF k \in {"o", "e"}
    THEN keyFallThrough(
             keyShowSingle(m, IF k = "o" THEN TailModeStdout ELSE TailModeStderr), k)
    ELSE IF k = "l" THEN keyFallThrough(keyShowBoth(m), k)
    ELSE IF k = "tab"
    THEN keyFallThrough(
             Ret(IF m.mode = TailModeBoth
                 THEN [m EXCEPT !.activePane = (m.activePane + 1) % 2] ELSE m, <<>>), k)
    ELSE IF k = "s"
    THEN keyFallThrough(
             Ret(IF m.copyMode /\ m.mode # TailModeBoth THEN m
                 ELSE recalculateLayout([m EXCEPT !.stacked = ~m.stacked]), <<>>), k)
    ELSE IF k = "x"
    THEN keyFallThrough(
             Ret(IF m.copyMode THEN m ELSE [m EXCEPT !.showBorders = ~m.showBorders],
                 <<>>), k)
    ELSE IF k = "m"
    THEN keyFallThrough(Ret([m EXCEPT !.mouseEnabled = ~m.mouseEnabled], <<>>), k)
    ELSE IF k = "/" THEN keySearch(m)
    ELSE IF k \in {"n", "N"}
    THEN keyFallThrough(Ret(IF m.lastSearch # <<>>
                            THEN performSearch(m, m.lastSearch, k = "n") ELSE m,
                            <<>>), k)
    ELSE IF k = "ctrl+y" THEN keyCopySelection(m)
    ELSE IF k = "Y" THEN keyCopyAll(m)
    ELSE IF k = "v" THEN keyFallThrough(keyViewPager(m), k)
    ELSE keyFallThrough(Ret(m, <<>>), k)

\* the keys that are not a single rune; every other key types itself into a
\* focused text input
NamedKeys == {"esc", "enter", "tab", "home", "up", "down", "pgup", "pgdown",
              "ctrl+y", "ctrl+u", "ctrl+d", "tail"}

\* the value of the search input after a key: a rune is inserted unless the
\* input is full
TypedInto(value, k) ==
    IF k \in NamedKeys \/ Len(value) >= CharLimit THEN value ELSE Append(value, k)

\* the Update of the search overlay: enter and esc close it, every other
\* message goes to the text input and to nothing else
UpdateInSearch(m, msg) ==
    IF msg.kind = "key" /\ msg.key \in {"enter", "esc"}
    THEN Ret(recalculateLayout(
                 refreshViewportContent(
                     IF msg.key = "enter"
                     THEN performSearch([m EXCEPT !.inSearchMode = FALSE,
                                                  !.lastSearch = m.searchValue],
                                        m.searchValue, TRUE)
                     ELSE [m EXCEPT !.inSearchMode = FALSE])), <<>>)
    ELSE Ret(refreshViewportContent(
                 IF msg.kind = "key"
                 THEN [m EXCEPT !.searchValue = TypedInto(m.searchValue, msg.key)]
                 ELSE m), <<>>)

----------------------------------------------------------------------------
(* Pane geometry and the mouse *)

NoGeom == [ok |-> FALSE, x |-> 0, y |-> 0, width |-> 0, height |-> 0,
           contentX |-> 0, contentY |-> 0, contentWidth |-> 0, contentHeight |-> 0]

makeGeom(x, y, vpWidth, vpHeight) ==
    [ok |-> TRUE, x |-> x, y |-> y,
     width |-> vpWidth + 2, height |-> 1 + vpHeight + 2,
     contentX |-> x + 1, contentY |-> y + 1 + 1,
     contentWidth |-> vpWidth, contentHeight |-> vpHeight]

paneGeometry(m, pane) ==
    LET both(stdoutGeom, stderrAt0) ==
            IF pane = "stdout" THEN stdoutGeom
            ELSE IF pane # "stderr" THEN NoGeom
            ELSE IF m.stacked
            THEN [stderrAt0 EXCEPT !.y = stdoutGeom.height,
                                   !.contentY = stdoutGeom.height + 1 + 1]
            ELSE [stderrAt0 EXCEPT !.x = stdoutGeom.width,
                                   !.contentX = stdoutGeom.width + 1]
        geometry(stdoutGeom, stderrAt0) ==
            IF m.mode = TailModeStdout
            THEN (IF pane = "stdout" THEN stdoutGeom ELSE NoGeom)
            ELSE IF m.mode = TailModeStderr
            THEN (IF pane = "stderr" THEN stderrAt0 ELSE NoGeom)
            ELSE both(stdoutGeom, stderrAt0)
    IN  geometry(makeGeom(0, 0, m.view["stdout"].Width, m.view["stdout"].Height),
                 makeGeom(0, 0, m.view["stderr"].Width, m.view["stderr"].Height))

insideOuter(g, x, y) ==
    g.ok /\ x >= g.x /\ x < g.x + g.width /\ y >= g.y /\ y < g.y + g.height

\* the first pane of ps whose frame holds the pointer; "" when there is none
RECURSIVE firstPaneAt(_, _, _, _)
firstPaneAt(m, ps, x, y) ==
    IF ps = <<>> THEN ""
    ELSE IF insideOuter(paneGeometry(m, Head(ps)), x, y) THEN Head(ps)
    ELSE firstPaneAt(m, Tail(ps), x, y)

paneFromMouse(m, x, y) ==
    firstPaneAt(m, IF m.mode = TailModeStdout THEN <<"stdout">>
                   ELSE IF m.mode = TailModeStderr THEN <<"stderr">>
                   ELSE <<"stdout", "stderr">>, x, y)

\* [ok, pt]: the selection point under the pointer
paneSelectionPoint(m, pane, x, y, clampToViewport) ==
    LET miss == [ok |-> FALSE, pt |-> NoPoint]
        at(lines, localX, line) ==
            [line |-> line, col |-> Max(0, Min(localX, runeLen(lines[line + 1])))]
        \* the point of lines at the local coordinates
        pointAt(lines, localX, localY) ==
            IF Len(lines) = 0 THEN [ok |-> TRUE, pt |-> NoPoint]
            ELSE [ok |-> TRUE,
                  pt |-> at(lines, localX,
                            Max(0, Min(m.view[pane].YOffset + localY, Len(lines) - 1)))]
        local(geom, localX0, localY0) ==
            IF ~geom.ok \/ geom.contentWidth <= 0 \/ geom.contentHeight <= 0
            THEN miss
            ELSE IF ~insideOuter(geom, x, y) THEN miss
            ELSE IF ~clampToViewport
                    /\ (localX0 < 0 \/ localX0 >= geom.contentWidth
                        \/ localY0 < 0 \/ localY0 >= geom.contentHeight)
            THEN miss
            ELSE pointAt(paneVisualLines(m, pane),
                         IF clampToViewport
                         THEN Max(0, Min(localX0, geom.contentWidth)) ELSE localX0,
                         IF clampToViewport
                         THEN Max(0, Min(localY0, geom.contentHeight - 1))
                         ELSE localY0)
        inside(geom) == local(geom, x - geom.contentX, y - geom.contentY)
    IN  inside(paneGeometry(m, pane))

\* viewport.Update for a wheel event: three lines up or down
viewportWheel(v, ev) ==
    IF ev = "wheelUp"
    THEN (IF AtTop(v) THEN v ELSE SetYOffset(v, v.YOffset - 3))
    ELSE IF ev = "wheelDown"
    THEN (IF AtBottom(v) THEN v ELSE SetYOffset(v, v.YOffset + 3))
    ELSE v

\* the selection cursor moved to the point r, when r is a point and not the
\* cursor already
dragSelection(m, r) ==
    IF ~r.ok \/ r.pt = m.selectionCursor THEN m
    ELSE refreshPaneContent([m EXCEPT !.selectionCursor = r.pt], m.selectionPane)

\* the selection follows the pointer after the content has scrolled under it
dragAfterScroll(m1, msg) ==
    IF m1.selecting /\ m1.selectionPane # ""
    THEN dragSelection(m1, paneSelectionPoint(m1, m1.selectionPane, msg.X, msg.Y, TRUE))
    ELSE m1

mouseWheel(m, msg, pane) ==
    LET targetPane == IF pane # "" THEN pane ELSE activeViewPane(m)
    IN  dragAfterScroll([m EXCEPT !.view[targetPane] =
                                      viewportWheel(m.view[targetPane], msg.ev)], msg)

\* a selection of the pane started at the point r, when r is a point
startSelection(m, pane, r) ==
    IF ~r.ok THEN m
    ELSE refreshPaneContent([m EXCEPT !.following = FALSE,
                                      !.selectionPane = pane,
                                      !.selectionAnchor = r.pt,
                                      !.selectionCursor = r.pt,
                                      !.selecting = TRUE], pane)

\* a press that takes the nearest point when the pointer is off the content
mouseLeftPressClamped(m, msg, pane) ==
    IF pane = "" THEN m
    ELSE startSelection(m, pane, paneSelectionPoint(m, pane, msg.X, msg.Y, TRUE))

mouseLeftPress(m, msg, pane) ==
    IF pane = "" THEN m
    ELSE startSelection(m, pane, paneSelectionPoint(m, pane, msg.X, msg.Y, FALSE))

mouseLeftMotion(m, msg) ==
    IF m.selectionPane = "" THEN m
    ELSE dragSelection(m, paneSelectionPoint(m, m.selectionPane, msg.X, msg.Y, TRUE))

\* the selection ended at the point r, when r is a point
finishSelection(m, r) ==
    [refreshPaneContent(IF r.ok THEN [m EXCEPT !.selectionCursor = r.pt] ELSE m,
                        m.selectionPane)
        EXCEPT !.selecting = FALSE]

mouseLeftRelease(m, msg) ==
    IF m.selectionPane = "" THEN [m EXCEPT !.selecting = FALSE]
    ELSE finishSelection(m, paneSelectionPoint(m, m.selectionPane, msg.X, msg.Y, TRUE))

\* the mouse event over the pane: the pane becomes the active one, a wheel up
\* ends follow, then the event goes to its handler
mouseOverPane(m, msg, pane) ==
    LET m1 == IF pane = "stdout" THEN [m EXCEPT !.activePane = 0]
              ELSE IF pane = "stderr" THEN [m EXCEPT !.activePane = 1]
              ELSE m
        m2 == IF msg.ev = "wheelUp" THEN [m1 EXCEPT !.following = FALSE] ELSE m1
    IN  IF msg.ev \in {"wheelUp", "wheelDown"} THEN mouseWheel(m2, msg, pane)
        ELSE IF msg.ev = "leftPress" THEN mouseLeftPress(m2, msg, pane)
        ELSE IF msg.ev = "leftMotion" /\ m2.selecting THEN mouseLeftMotion(m2, msg)
        ELSE IF msg.ev = "release" /\ m2.selecting THEN mouseLeftRelease(m2, msg)
        ELSE m2

UpdateMouse(m, msg) ==
    Ret(mouseOverPane(m, msg, paneFromMouse(m, msg.X, msg.Y)), <<>>)

\* TailModel.Update
TailUpdate(m, msg) ==
    IF m.inSearchMode THEN UpdateInSearch(m, msg)
    ELSE IF msg.kind = "resize" THEN UpdateWindowSize(m, msg)
    ELSE IF msg.kind = "key" THEN UpdateKey(m, msg.key)
    ELSE IF msg.kind = "mouse" THEN UpdateMouse(m, msg)
    ELSE IF msg.kind = "tailStartMsg" THEN UpdateTailStart(m, msg)
    ELSE IF msg.kind = "logLineMsg" THEN UpdateLogLine(m, msg)
    ELSE Ret(m, <<>>)

----------------------------------------------------------------------------
(* The main Model: it opens the log view on a tailPathsMsg, routes every   *)
(* message to the TailModel while the view is open, and closes the view on *)
(* the Quit key.                                                           *)

tailPathsMsg(mode, stdoutPath, stderrPath) ==
    [kind |-> "tailPathsMsg", mode |-> mode, stdout |-> stdoutPath,
     stderr |-> stderrPath]

\* the mouse setting put back when the view closes
restoreMouse(mn) ==
    IF mn.mouseEnabled # mn.mouseEnabledBeforeTail
    THEN [mn EXCEPT !.mouseEnabled = mn.mouseEnabledBeforeTail]
    ELSE mn

\* Model.Update while the log view is open
UpdateInTailView(mn, m, msg) ==
    LET wasInSearchMode == m.inSearchMode
        isKey(ks) == msg.kind = "key" /\ msg.key \in ks /\ ~wasInSearchMode
        quit == isKey({"q", "esc"})
        mn1 == IF quit THEN restoreMouse([mn EXCEPT !.inTailView = FALSE]) ELSE mn
        mn2 == IF isKey({"m"}) THEN [mn1 EXCEPT !.mouseEnabled = ~mn1.mouseEnabled]
               ELSE mn1
        \* r is what TailModel.Update returns
        routed(r) ==
            LET mn3 == [mn2 EXCEPT !.mouseEnabled = r.m.mouseEnabled]
                mn4 == IF quit THEN restoreMouse([mn3 EXCEPT !.inTailView = FALSE])
                       ELSE mn3
            IN  [main |-> mn4, m |-> r.m, cmds |-> r.cmds]
    IN  IF isKey({"?"}) THEN [main |-> mn, m |-> m, cmds |-> <<>>]
        ELSE routed(TailUpdate(m, msg))

\* Model.Update for a tailPathsMsg in the main view
UpdateTailPaths(mn, msg) ==
    LET opened(m1) ==
            [main |-> [mn EXCEPT !.mouseEnabledBeforeTail = mn.mouseEnabled,
                                 !.inTailView = TRUE],
             m |-> m1, cmds |-> TailInit(m1)]
    IN  opened([NewTailModel(msg.stdout, msg.stderr, mn.width, mn.height, msg.mode)
                   EXCEPT !.mouseEnabled = mn.mouseEnabled])

\* the commands of the main Model and the messages they come back with
tickCmd == [kind |-> "tick"]
fetchJobsCmd(mn) == [kind |-> "fetchJobs", appMode |-> mn.appMode]
fetchDetailsCmd(id) == [kind |-> "fetchDetails", id |-> id]
cancelJobCmd(id) == [kind |-> "cancel", id |-> id]
tickMsg == [kind |-> "tickMsg"]
jobsMsg(jobs) == [kind |-> "jobsMsg", jobs |-> jobs]
detailsMsg(rows) == [kind |-> "detailsMsg", rows |-> rows]
refreshNowMsg == [kind |-> "refreshNowMsg"]

\* no job: the nil *Job and the empty job ID
NoJob == <<>>

\* applyWindowSize: the details panel is hidden when the panels would stack
\* (the windows of the model are tall enough for the panel otherwise)
hideDetails(mn) == mn.width < 30 + 20 + 2

\* a Job as squeue and sacct list it.  A text is the sequence of its
\* characters, a run of letters or digits being written as one element.
Job(id, status) ==
    [JobID |-> id, Name |-> <<>>, User |-> <<>>, Status |-> status,
     Partition |-> <<>>, Time |-> <<>>, Nodes |-> <<>>, NodeList |-> <<>>]

modeLive == 0
modeHistory == 1
filterAll == 0
filterRunning == 1
filterPending == 2

statusAliases ==
    [w \in {"RUNNING", "COMPLETING", "CONFIGURING", "PENDING", "PREEMPTED",
            "REQUEUED", "REQUEUE_HOLD", "REQUEUE_FED", "RESIZING", "SUSPENDED",
            "STOPPED", "PP", "COMPLETED", "CANCELLED", "FAILED", "TIMEOUT",
            "NODE_FAIL", "OUT_OF_MEMORY"} |->
        CASE w = "RUNNING" -> "R" [] w = "COMPLETING" -> "CG"
          [] w = "CONFIGURING" -> "CF" [] w = "PENDING" -> "PD"
          [] w = "PREEMPTED" -> "PR" [] w = "REQUEUED" -> "RQ"
          [] w = "REQUEUE_HOLD" -> "RH" [] w = "REQUEUE_FED" -> "RF"
          [] w = "RESIZING" -> "RS" [] w = "SUSPENDED" -> "S"
          [] w = "STOPPED" -> "ST" [] w = "PP" -> "PD"
          [] w = "COMPLETED" -> "CD" [] w = "CANCELLED" -> "CA"
          [] w = "FAILED" -> "F" [] w = "TIMEOUT" -> "TO"
          [] w = "NODE_FAIL" -> "NF" [] w = "OUT_OF_MEMORY" -> "OOM"]

\* StateCode: the alias of the whole text, else the alias of its first word
\* when there are several, else the text itself (the texts of the model end
\* in no * or +)
StateCode(status) ==
    LET text == TrimSpace(ToUpper(status))
    IN  IF text = <<>> THEN <<>>
        ELSE IF Len(text) = 1 /\ text[1] \in DOMAIN statusAliases
        THEN <<statusAliases[text[1]]>>
        ELSE IF /\ Len(text) > 1 /\ IsSpaceChar(text[2])
                /\ text[1] \in DOMAIN statusAliases
        THEN <<statusAliases[text[1]]>>
        ELSE text

\* strings.Split(s, sep) for a separator of one character
RECURSIVE SplitOn(_, _, _)
SplitOn(s, sep, cur) ==
    IF s = <<>> THEN <<cur>>
    ELSE IF Head(s) = sep THEN <<cur>> \o SplitOn(Tail(s), sep, <<>>)
    ELSE SplitOn(Tail(s), sep, Append(cur, Head(s)))

Reversed(q) == [i \in 1..Len(q) |-> q[Len(q) + 1 - i]]

\* the Job parseSacct builds of the fields of a record
sacctJob(parts) ==
    [JobID |-> TrimSpace(parts[1]), Name |-> TrimSpace(parts[2]),
     User |-> TrimSpace(parts[3]), Status |-> TrimSpace(parts[4]),
     Partition |-> TrimSpace(parts[5]), Time |-> TrimSpace(parts[6]),
     Nodes |-> TrimSpace(parts[7]), NodeList |-> TrimSpace(parts[8])]

\* parseSacct: the records of the output of sacct with eight fields or more
\* and no step in the job ID, newest first
parseSacctInOrder(output) ==
    LET lines == SplitNL(TrimSpace(output))
        isJob(line) ==
            /\ line # <<>>
            /\ Len(SplitOn(line, "|", <<>>)) >= 8
            /\ ~Contains(SplitOn(line, "|", <<>>)[1], <<".">>)
        kept == SelectSeq(lines, isJob)
    IN  [i \in 1..Len(kept) |-> sacctJob(SplitOn(kept[i], "|", <<>>))]

parseSacct(output) ==
    LET lines == SplitNL(TrimSpace(output))
        isJob(line) ==
            /\ line # <<>>
            /\ Len(SplitOn(line, "|", <<>>)) >= 8
            /\ ~Contains(SplitOn(line, "|", <<>>)[1], <<".">>)
        kept == SelectSeq(lines, isJob)
    IN  Reversed([i \in 1..Len(kept) |-> sacctJob(SplitOn(kept[i], "|", <<>>))])

IsRunning(j) == StateCode(j.Status) \in {<<"R">>, <<"CG">>}

IsPending(j) ==
    StateCode(j.Status) \in {<<"PD">>, <<"CF">>, <<"PR">>, <<"RQ">>, <<"RS">>, <<"S">>,
                             <<"ST">>, <<"RH">>, <<"RF">>}

IsHistorical(j) == ~IsRunning(j) /\ ~IsPending(j)

\* the job ID of table.SelectedRow(); NoJob when the cursor is on no row.  The
\* rows of the table are the jobs of m.filtered.
SelectedRow(mn) ==
    IF mn.cursor >= 0 /\ mn.cursor < Len(mn.filtered)
    THEN mn.filtered[mn.cursor + 1].JobID
    ELSE NoJob

\* Model.getSelectedJob: the job of m.jobs with the ID of the selected row
getSelectedJob(mn) ==
    LET id == SelectedRow(mn)
    IN  IF \E i \in 1..Len(mn.jobs) : mn.jobs[i].JobID = id THEN id ELSE NoJob

\* the selection sync after the table changed: a newly selected job becomes
\* selectedID and its details are fetched when the details panel is shown
syncSelection(mn, cmds) ==
    LET id == SelectedRow(mn)
    IN  IF id # NoJob /\ id # mn.selectedID
        THEN [main |-> [mn EXCEPT !.selectedID = id],
              cmds |-> IF hideDetails(mn) THEN cmds
                       ELSE Append(cmds, fetchDetailsCmd(id))]
        ELSE [main |-> mn, cmds |-> cmds]

\* Model.Update while the cancel confirmation is open; cmds are the commands
\* collected before (those of a tick)
UpdateConfirmingNoToo(mn, msg, cmds) ==
    IF msg.kind = "key" /\ msg.key \in {"y", "Y", "n", "N"}
    THEN [main |-> [mn EXCEPT !.confirmingCancel = FALSE,
                              !.cancelCandidate = NoJob],
          cmds |-> IF mn.cancelCandidate # NoJob
                   THEN Append(cmds, cancelJobCmd(mn.cancelCandidate))
                   ELSE cmds]
    ELSE IF msg.kind = "key" /\ msg.key \in {"esc", "q"}
    THEN [main |-> [mn EXCEPT !.confirmingCancel = FALSE,
                              !.cancelCandidate = NoJob],
          cmds |-> <<>>]
    ELSE [main |-> mn, cmds |-> <<>>]

UpdateConfirming(mn, msg, cmds) ==
    IF msg.kind = "key" /\ msg.key \in {"y", "Y"}
    THEN [main |-> [mn EXCEPT !.confirmingCancel = FALSE,
                              !.cancelCandidate = NoJob],
          cmds |-> IF mn.cancelCandidate # NoJob
                   THEN Append(cmds, cancelJobCmd(mn.cancelCandidate))
                   ELSE cmds]
    ELSE IF msg.kind = "key" /\ msg.key \in {"n", "N", "esc", "q"}
    THEN [main |-> [mn EXCEPT !.confirmingCancel = FALSE,
                              !.cancelCandidate = NoJob],
          cmds |-> <<>>]
    ELSE [main |-> mn, cmds |-> <<>>]

\* Model.Update while the value overlay or the details overlay is open (no
\* tick): the close keys close it, v in the details overlay opens the value
\* overlay on a detail row with a value, every other message goes to the
\* overlay's own widget
UpdateOverlay(mn, msg, cmds) ==
    IF msg.kind = "resize"
    THEN [main |-> [mn EXCEPT
                       !.width = IF msg.Width <= 0 THEN mn.width ELSE msg.Width,
                       !.height = IF msg.Height <= 0 THEN mn.height ELSE msg.Height],
          cmds |-> <<>>]
    ELSE IF mn.inValueOverlay
    THEN (IF msg.kind = "key" /\ msg.key \in {"esc", "q", "v"}
          THEN [main |-> [mn EXCEPT !.inValueOverlay = FALSE], cmds |-> <<>>]
          ELSE [main |-> mn, cmds |-> cmds])
    ELSE IF msg.kind = "key" /\ msg.key = "v" /\ mn.details
    THEN [main |-> [mn EXCEPT !.inValueOverlay = TRUE], cmds |-> cmds]
    ELSE IF msg.kind = "key" /\ msg.key \in {"esc", "q", "i"}
    THEN [main |-> [mn EXCEPT !.inDetailsOverlay = FALSE], cmds |-> <<>>]
    ELSE [main |-> mn, cmds |-> cmds]

\* the jobs table (bubbles), which holds the focus: SetRows keeps the cursor
\* within the rows, the Up and Down keys move it
SetRows(mn, rows) ==
    [mn EXCEPT !.filtered = rows,
               !.cursor = IF mn.cursor > Len(rows) - 1 THEN Len(rows) - 1
                          ELSE mn.cursor]

tableUpdate(mn, msg) ==
    IF msg.kind = "key" /\ msg.key \in {"down", "j"}
    THEN [mn EXCEPT !.cursor = Max(Min(mn.cursor + 1, Len(mn.filtered) - 1), 0)]
    ELSE IF msg.kind = "key" /\ msg.key \in {"up", "k"}
    THEN [mn EXCEPT !.cursor = Max(Min(mn.cursor - 1, Len(mn.filtered) - 1), 0)]
    ELSE mn

\* Model.updateTable: the jobs that pass the mode and the status filter (the
\* text filter is empty), unless a new list is being fetched
updateTableAnyState(mn) ==
    LET shown(j) ==
            /\ ~(mn.sFilter = filterRunning /\ ~IsRunning(j))
            /\ ~(mn.sFilter = filterPending /\ ~IsPending(j))
    IN  IF mn.loadingJobs THEN mn
        ELSE SetRows(mn, SelectSeq(mn.jobs, shown))

updateTable(mn) ==
    LET shown(j) ==
            /\ ~(mn.appMode = modeHistory /\ ~IsHistorical(j))
            /\ ~(mn.sFilter = filterRunning /\ ~IsRunning(j))
            /\ ~(mn.sFilter = filterPending /\ ~IsPending(j))
    IN  IF mn.loadingJobs THEN mn
        ELSE SetRows(mn, SelectSeq(mn.jobs, shown))

\* Model.Update in the main view: the switch on the message, then the table
\* and the selection sync.  Of the keys, those of the cancel dialog, of the
\* overlays, of the pause and of the table are modelled; the follower
\* messages have no case and are dropped.
UpdateMain(mn, m, msg, cmds) ==
    LET after(mn1, cmds1) ==
            LET r == syncSelection(tableUpdate(mn1, msg), cmds1)
            IN  [main |-> r.main, m |-> m, cmds |-> r.cmds]
        job == getSelectedJob(mn)
    IN  IF msg.kind = "tailPathsMsg" THEN UpdateTailPaths(mn, msg)
        ELSE IF msg.kind = "resize"
        THEN [main |-> [mn EXCEPT
                           !.width = IF msg.Width <= 0 THEN mn.width ELSE msg.Width,
                           !.height = IF msg.Height <= 0 THEN mn.height
                                      ELSE msg.Height],
              m |-> m, cmds |-> cmds]
        ELSE IF msg.kind = "jobsMsg"
        THEN LET r == syncSelection(
                          updateTable([mn EXCEPT !.jobs = msg.jobs,
                                                 !.loadingJobs = FALSE]), cmds)
             IN  after(r.main, r.cmds)
        ELSE IF msg.kind = "detailsMsg"
        THEN after([mn EXCEPT !.details = msg.rows], cmds)
        ELSE IF msg.kind = "refreshNowMsg"
        THEN after(mn, Append(cmds, fetchJobsCmd(mn)))
        ELSE IF msg.kind = "key" /\ msg.key = "p"
        THEN after([mn EXCEPT !.paused = ~mn.paused], cmds)
        ELSE IF msg.kind = "key" /\ msg.key = "h"
        THEN LET mn1 == [mn EXCEPT !.loadingJobs = TRUE,
                                   !.appMode = IF mn.appMode = modeLive
                                               THEN modeHistory ELSE modeLive]
             IN  after(mn1, cmds \o <<fetchJobsCmd(mn1),
                                      WindowSizeMsg(mn.width, mn.height)>>)
        ELSE IF msg.kind = "key" /\ msg.key = "g"
        THEN after(updateTable([mn EXCEPT !.sFilter = (mn.sFilter + 1) % 3]), cmds)
        ELSE IF msg.kind = "key" /\ msg.key \in {"i", "enter"} /\ job # NoJob
        THEN (IF hideDetails(mn)
              THEN [main |-> [mn EXCEPT !.inDetailsOverlay = TRUE], m |-> m,
                    cmds |-> Append(cmds, fetchDetailsCmd(job))]
              ELSE after(mn, Append(cmds, fetchDetailsCmd(job))))
        ELSE IF msg.kind = "key" /\ msg.key = "c" /\ job # NoJob
        THEN after([mn EXCEPT !.cancelCandidate = job, !.confirmingCancel = TRUE],
                   cmds)
        ELSE IF msg.kind = "key" /\ msg.key = "v" /\ mn.details
        THEN after([mn EXCEPT !.inValueOverlay = TRUE], cmds)
        ELSE after(mn, cmds)

\* Model.Update: a tick schedules the fetch of the jobs and the next tick
\* first; then the cancel confirmation, the overlays, the log view and the
\* main view take the message, in this order
ModelUpdate(mn, m, msg) ==
    LET handledTick == msg.kind = "tickMsg"
        cmds == IF handledTick
                THEN (IF ~mn.paused /\ ~mn.inTailView THEN <<fetchJobsCmd(mn)>>
                      ELSE <<>>) \o <<tickCmd>>
                ELSE <<>>
        onMain(r) == [main |-> r.main, m |-> m, cmds |-> r.cmds]
    IN  IF handledTick /\ mn.inTailView THEN [main |-> mn, m |-> m, cmds |-> cmds]
        ELSE IF mn.confirmingCancel THEN onMain(UpdateConfirming(mn, msg, cmds))
        ELSE IF (mn.inValueOverlay \/ mn.inDetailsOverlay) /\ ~handledTick
        THEN onMain(UpdateOverlay(mn, msg, cmds))
        ELSE IF mn.inTailView THEN UpdateInTailView(mn, m, msg)
        ELSE UpdateMain(mn, m, msg, cmds)

----------------------------------------------------------------------------
(* The follow processes and the tasks that run off the loop *)

\* a process: whether it still runs, how often it was killed and its pipe
\* closed, the lines read from it, and the session that spawned it
NewProc(pane, sess) ==
    [pane |-> pane, sess |-> sess, alive |-> TRUE, kills |-> 0, closes |-> 0,
     out |-> 0]

\* the bag with the commands of cmds added that run off the loop as tasks
RECURSIVE addCmds(_, _, _)
addCmds(bag, cmds, sess) ==
    IF cmds = <<>> THEN bag
    ELSE LET c == Head(cmds)
             rest == addCmds(bag, Tail(cmds), sess)
         IN  IF c.kind \in {"start", "wait", "cleanup", "tick", "fetchJobs",
                           "fetchDetails", "cancel", "resize"}
             THEN rest (+) SetToBag({c @@ [sess |-> sess]})
             ELSE rest

\* the text the copy command among cmds hands to the clipboard bridge; empty
\* when there is none
RECURSIVE copied(_)
copied(cmds) ==
    IF cmds = <<>> THEN <<>>
    ELSE IF Head(cmds).kind = "osc52" THEN Head(cmds).text
    ELSE copied(Tail(cmds))

remove(bag, x) == bag (-) SetToBag({x})

InPool(kinds) == {x \in BagToSet(pool) : x.kind \in kinds}

\* how many tasks and messages of these kinds are in flight
CountInPool(kinds) == BagCardinality([x \in InPool(kinds) |-> CopiesIn(x, pool)])

\* the ghost record of the message the loop handles
Handled(msg) ==
    [msg |-> msg,
     inView |-> main.inTailView, inSearch |-> tm.inSearchMode,
     session |-> session]

TaskStep == [msg |-> [kind |-> "none"], inView |-> FALSE, inSearch |-> FALSE,
             session |-> 0]

\* the lines a message puts into the buffer of a pane, cleaned (ghost)
arrivedAfter(msg) ==
    IF ~main.inTailView
    THEN (IF msg.kind = "tailPathsMsg" THEN [p \in Panes |-> <<>>] ELSE arrived)
    ELSE IF tm.inSearchMode THEN arrived
    ELSE IF msg.kind = "logLineMsg"
    THEN LET ls == linesOfEvent(msg)
         IN  [arrived EXCEPT ![msg.pane] =
                 @ \o [i \in 1..Len(ls) |-> cleanLogLine(ls[i])]]
    ELSE IF msg.kind = "tailStartMsg"
    THEN [arrived EXCEPT ![msg.pane] =
             [i \in 1..Len(msg.initialLines) |-> cleanLogLine(msg.initialLines[i])]]
    ELSE IF msg.kind = "key" /\ msg.key = "c" THEN [p \in Panes |-> <<>>]
    ELSE arrived

\* one step of the loop: the message goes through Model.Update and the
\* commands returned start running
Loop(msg, bag) ==
    LET opened == ~main.inTailView /\ msg.kind = "tailPathsMsg"
        s == IF opened THEN session + 1 ELSE session
    IN  \E r \in {ModelUpdate(main, tm, msg)} :
            /\ main' = r.main
            /\ tm' = r.m
            /\ session' = s
            /\ pool' = addCmds(bag, r.cmds, s)
            /\ clipboard' = copied(r.cmds)
            /\ arrived' = arrivedAfter(msg)
            /\ last' = Handled(msg)
            /\ UNCHANGED procs

----------------------------------------------------------------------------
(* Actions.  The sets of inputs are parameters: each specification below   *)
(* offers the inputs its claims are about.                                 *)

\* the TailModel field of a Model that has not opened the log view yet
ZeroTailModel ==
    [NewTailModel("", "", 0, 0, TailModeBoth) EXCEPT
        !.following = FALSE, !.showBorders = FALSE,
        !.view = [p \in Panes |-> [Width |-> 0, Height |-> 0, YOffset |-> 0,
                                   nlines |-> 0]],
        !.searchWidth = 0]

NewModel(width, height) ==
    [inTailView |-> FALSE, mouseEnabled |-> FALSE, mouseEnabledBeforeTail |-> FALSE,
     paused |-> FALSE, confirmingCancel |-> FALSE, cancelCandidate |-> NoJob,
     inDetailsOverlay |-> FALSE, inValueOverlay |-> FALSE,
     jobs |-> <<>>, filtered |-> <<>>, appMode |-> modeLive,
     sFilter |-> filterAll, loadingJobs |-> FALSE,
     cursor |-> 0, selectedID |-> NoJob, details |-> FALSE,
     width |-> IF width <= 0 THEN 80 ELSE width,
     height |-> IF height <= 0 THEN 24 ELSE height]

InitWith(sizes) ==
    /\ \E sz \in sizes : main = NewModel(sz[1], sz[2])
    /\ tm = ZeroTailModel
    /\ session = 0
    /\ pool = EmptyBag
    /\ procs = <<>>
    /\ arrived = [p \in Panes |-> <<>>]
    /\ clipboard = <<>>
    /\ last = TaskStep

\* a tail key (l, o, e) in the main view: the paths are resolved off the loop
\* and come back as a tailPathsMsg
PressTail(modes, pathPairs) ==
    /\ ~main.inTailView
    /\ ~main.confirmingCancel /\ ~main.inDetailsOverlay /\ ~main.inValueOverlay
    /\ session + CountInPool({"tailPathsMsg"}) < MaxSessions
    /\ \E mode \in modes, pp \in pathPairs :
          /\ pool' = pool (+) SetToBag({tailPathsMsg(mode, pp[1], pp[2])})
          /\ last' = Handled(KeyMsg("tail"))
    /\ UNCHANGED <<tm, main, session, procs, arrived, clipboard>>

\* the state after NewModel and Model.Init: the first fetch of the jobs, the
\* first tick and the report of the window size are on their way
InitMain(sizes) ==
    /\ \E sz \in sizes :
          /\ main = NewModel(sz[1], sz[2])
          /\ pool = addCmds(SetToBag({WindowSizeMsg(sz[1], sz[2])}),
                            <<fetchJobsCmd(NewModel(sz[1], sz[2])), tickCmd>>, 0)
    /\ tm = ZeroTailModel
    /\ session = 0
    /\ procs = <<>>
    /\ arrived = [p \in Panes |-> <<>>]
    /\ clipboard = <<>>
    /\ last = TaskStep

\* a key pressed while the log view is closed
MainKey(keys) ==
    /\ ~main.inTailView
    /\ \E k \in keys : Loop(KeyMsg(k), pool)

\* a command of the main Model finishes off the loop and its message is
\* queued: the timer of tickCmd fires, squeue or sacct lists the jobs,
\* scontrol gives the details of a job, scancel has run
RunCmd(kinds, jobLists, detailRows) ==
    \E t \in InPool(kinds) :
        /\ \E msg \in CASE t.kind = "tick" -> {tickMsg}
                       [] t.kind = "fetchJobs" -> {jobsMsg(js) : js \in jobLists}
                       [] t.kind = "fetchDetails" -> {detailsMsg(d) : d \in detailRows}
                       [] t.kind = "cancel" -> {refreshNowMsg}
                       [] OTHER -> {} :
              pool' = remove(pool, t) (+) SetToBag({msg})
        /\ last' = TaskStep
        /\ UNCHANGED <<tm, main, session, procs, arrived, clipboard>>

\* the fetch of the jobs in history mode finishes (FetchJobsHistory): sacct
\* has printed its records and parseSacct makes the job list of them
RunSacct(outputs) ==
    \E t \in InPool({"fetchJobs"}) :
        /\ t.appMode = modeHistory
        /\ \E output \in outputs :
              /\ pool' = remove(pool, t) (+) SetToBag({jobsMsg(parseSacct(output))})
              /\ last' = [TaskStep EXCEPT !.msg = [kind |-> "sacct",
                                                   output |-> output]]
        /\ UNCHANGED <<tm, main, session, procs, arrived, clipboard>>

\* a message of a finished task reaches the loop
Deliver ==
    \E msg \in InPool({"tailPathsMsg", "tailStartMsg", "logLineMsg", "tickMsg",
                       "jobsMsg", "detailsMsg", "refreshNowMsg", "resize"}) :
        Loop(msg, remove(pool, msg))

\* a key pressed while the log view is open
Key(keys) ==
    /\ main.inTailView
    /\ \E k \in keys :
          /\ tm.inSearchMode /\ k \notin NamedKeys => Len(tm.searchValue) < MaxQuery
          /\ Loop(KeyMsg(k), pool)

Resize(sizes) ==
    \E sz \in sizes : Loop(WindowSizeMsg(sz[1], sz[2]), pool)

\* a mouse event while the log view is open; the terminal reports the mouse
\* only while mouse support is on
Mouse(events, xs, ys) ==
    /\ main.inTailView
    /\ main.mouseEnabled
    /\ \E ev \in events, x \in xs, y \in ys : Loop(MouseMsg(ev, x, y), pool)

\* startTailCmd runs: the bulk read gives the initial lines, then the follow
\* process is spawned, which can fail
RunStart(batches, spawnOutcomes) ==
    \E t \in InPool({"start"}) :
        /\ \/ /\ t.path = ""
              /\ pool' = remove(pool, t) (+) SetToBag({
                     tailStartMsg(t.pane, NoPathLines, NoHandle, NoHandle, NoHandle, TRUE)
                       @@ [sess |-> t.sess]})
              /\ UNCHANGED procs
           \/ /\ t.path # ""
              /\ \E batch \in batches, spawned \in spawnOutcomes :
                    IF spawned
                    THEN LET h == Len(procs) + 1
                         IN  /\ procs' = Append(procs, NewProc(t.pane, t.sess))
                             /\ pool' = remove(pool, t) (+) SetToBag({
                                    tailStartMsg(t.pane, batch, h, h, h, FALSE)
                                      @@ [sess |-> t.sess]})
                    ELSE /\ pool' = remove(pool, t) (+) SetToBag({
                                tailStartMsg(t.pane, batch, NoHandle, NoHandle,
                                             NoHandle, TRUE) @@ [sess |-> t.sess]})
                         /\ UNCHANGED procs
        /\ last' = TaskStep
        /\ UNCHANGED <<tm, main, session, arrived, clipboard>>

\* the blocking read of waitForLine returns: with a line of a running process,
\* with the end of the stream when the process has ended, or with an error
RunWait(streamLines, partials) ==
    \E t \in InPool({"wait"}) :
        /\ \/ /\ t.reader = NoHandle
              /\ pool' = remove(pool, t) (+) SetToBag({
                     logLineMsg(t.pane, <<>>, "not initialized", TRUE)
                       @@ [sess |-> t.sess]})
              /\ UNCHANGED procs
           \/ /\ t.reader # NoHandle
              /\ procs[t.reader].alive
              /\ procs[t.reader].closes = 0
              /\ procs[t.reader].out < MaxOut
              /\ \E line \in streamLines :
                    pool' = remove(pool, t) (+) SetToBag({
                        logLineMsg(t.pane, line, "nil", FALSE)
                          @@ [sess |-> procs[t.reader].sess]})
              /\ procs' = [procs EXCEPT ![t.reader].out = @ + 1]
           \/ /\ t.reader # NoHandle
              /\ procs[t.reader].closes = 0
              /\ \E part \in partials :
                    pool' = remove(pool, t) (+) SetToBag({
                        logLineMsg(t.pane, part, "EOF", TRUE)
                          @@ [sess |-> procs[t.reader].sess]})
              /\ procs' = [procs EXCEPT ![t.reader].alive = FALSE]
           \/ /\ t.reader # NoHandle
              /\ procs[t.reader].closes > 0
              /\ pool' = remove(pool, t) (+) SetToBag({
                     logLineMsg(t.pane, <<>>, "file already closed", TRUE)
                       @@ [sess |-> procs[t.reader].sess]})
              /\ UNCHANGED procs
        /\ last' = TaskStep
        /\ UNCHANGED <<tm, main, session, arrived, clipboard>>

\* a cleanup task runs: kill and reap the process, close the pipe
RunCleanup ==
    \E t \in InPool({"cleanup"}) :
        /\ pool' = remove(pool, t)
        /\ procs' = [h \in 1..Len(procs) |->
                        [procs[h] EXCEPT
                            !.alive = IF t.cmd = h THEN FALSE ELSE @,
                            !.kills = IF t.cmd = h THEN @ + 1 ELSE @,
                            !.closes = IF t.pipe = h THEN @ + 1 ELSE @]]
        /\ last' = TaskStep
        /\ UNCHANGED <<tm, main, session, arrived, clipboard>>

----------------------------------------------------------------------------
(* Specification Spec: the followers across sessions.  The view is opened, *)
(* quit and opened again in stdout-only mode, with one stream line.        *)

LifeSizes == {<<80, 24>>}
LifePaths == {<<"out", "err">>}
LifeBatches == {<< <<"a">> >>}
LifeLines == {<<"a">>}
LifePartials == {<<>>}

Init == InitWith(LifeSizes)

OpenLog == PressTail({TailModeStdout}, LifePaths)
PressEsc == Key({"esc"})
OpenSearch == ~tm.inSearchMode /\ Key({"/"})
StartDone == RunStart(LifeBatches, {TRUE})
ReadDone == RunWait(LifeLines, LifePartials)

Next ==
    \/ OpenLog
    \/ Deliver
    \/ PressEsc
    \/ OpenSearch
    \/ StartDone
    \/ ReadDone
    \/ RunCleanup

Spec == Init /\ [][Next]_vars

----------------------------------------------------------------------------
(* Specification SpecView: one session of the log view with both panes,    *)
(* from the state in which the main Model has just opened it.              *)

\* the state after Model.Update has handled a tailPathsMsg in the main view;
\* mouse support is on when the user has toggled it there before
InitOpened(sizes, modes, pathPairs, mice) ==
    \E sz \in sizes, mode \in modes, pp \in pathPairs, mouse \in mice :
        \E r \in {UpdateTailPaths([NewModel(sz[1], sz[2]) EXCEPT !.mouseEnabled = mouse],
                                  tailPathsMsg(mode, pp[1], pp[2]))} :
            /\ main = r.main
            /\ tm = r.m
            /\ session = 1
            /\ pool = addCmds(EmptyBag, r.cmds, 1)
            /\ procs = <<>>
            /\ arrived = [p \in Panes |-> <<>>]
            /\ clipboard = <<>>
            /\ last = [msg |-> tailPathsMsg(mode, pp[1], pp[2]), inView |-> FALSE,
                       inSearch |-> FALSE, session |-> 0]

InitView == InitOpened(LifeSizes, {TailModeBoth}, LifePaths, {FALSE})

PressQ == ~tm.inSearchMode /\ Key({"q"})

NextView ==
    \/ Deliver
    \/ PressEsc
    \/ PressQ
    \/ OpenSearch
    \/ StartDone
    \/ ReadDone
    \/ RunCleanup

SpecView == InitView /\ [][NextView]_vars

----------------------------------------------------------------------------
(* Properties of the follower lifecycle *)

\* the last n elements of seq
LastN(seq, n) == IF Len(seq) > n THEN SubSeq(seq, Len(seq) - n + 1, Len(seq)) ELSE seq

\* how many more copies of x the bag of tasks holds after the step
Added(x) == CopiesIn(x, pool') - CopiesIn(x, pool)

\* the tasks of one kind the step has put into the bag
NewTasks(kind) == {x \in BagToSet(pool') : x.kind = kind /\ Added(x) > 0}

\* the loop handles, in this step, a line event of an open view
LineEventStep(terminal) ==
    /\ last'.msg.kind = "logLineMsg"
    /\ last'.msg.terminal = terminal
    /\ last'.inView

\* wait-for-line tasks in flight on reader h
WaitsOn(h) ==
    BagCardinality([x \in {w \in InPool({"wait"}) : w.reader = h} |->
                        CopiesIn(x, pool)])

\* cleanup tasks in flight that kill process h, and that close pipe h
KillsPending(h) ==
    BagCardinality([x \in {c \in InPool({"cleanup"}) : c.cmd = h} |->
                        CopiesIn(x, pool)])
ClosesPending(h) ==
    BagCardinality([x \in {c \in InPool({"cleanup"}) : c.pipe = h} |->
                        CopiesIn(x, pool)])

\* C3: while the view is open, every line event that is not terminal is
\* appended to the buffer of its pane and followed by exactly one new
\* wait-for-line task for that pane, whatever the state of the view.
C3_LineEventAppendsAndRearms ==
    [][LineEventStep(FALSE) =>
          LET p == last'.msg.pane
          IN  /\ tm'.lines[p]
                   = LastN(Append(tm.lines[p], cleanLogLine(last'.msg.line)), MaxLogLines)
              /\ \E w \in NewTasks("wait") :
                    /\ w.pane = p
                    /\ Added(w) = 1
                    /\ NewTasks("wait") = {w}]_vars

\* C4: on one reader at most one wait-for-line task is in flight, in every
\* interleaving of start results, line events, quit and re-open.
C4_OneWaitPerReader ==
    \A h \in 1..Len(procs) : WaitsOn(h) <= 1

\* C5: when the loop handles a terminal line event of an open view, the
\* handles of the pane are nil afterwards, exactly one cleanup task carrying
\* the handles held before is dispatched, and no wait-for-line task is issued,
\* whatever the state of the view.
C5_TerminalEventReleases ==
    [][LineEventStep(TRUE) =>
          LET p == last'.msg.pane
              c == cleanupProcessCmd(tm.cmd[p], tm.pipe[p]) @@ [sess |-> session]
          IN  /\ tm'.reader[p] = NoHandle
              /\ tm'.cmd[p] = NoHandle
              /\ tm'.pipe[p] = NoHandle
              /\ NewTasks("cleanup") = {c}
              /\ Added(c) = 1
              /\ NewTasks("wait") = {}]_vars

\* the loop handles, in this step, the Quit key outside the search overlay
QuitStep ==
    /\ last'.msg \in {KeyMsg("q"), KeyMsg("esc")}
    /\ last'.inView
    /\ ~last'.inSearch

\* the cleanup tasks a Quit must dispatch: one for each pane, with the handles
\* the pane held
QuitCleanups ==
    SetToBag({cleanupProcessCmd(tm.cmd["stdout"], tm.pipe["stdout"])
                @@ [sess |-> session]})
    (+) SetToBag({cleanupProcessCmd(tm.cmd["stderr"], tm.pipe["stderr"])
                    @@ [sess |-> session]})

\* C6: the Quit key outside the search overlay sets the process, pipe and
\* reader of both panes to nil and dispatches one cleanup task for each pane
\* with the handles the pane held; a cleanup task without handles changes no
\* process.
C6_QuitReleasesBothPanes ==
    [][/\ QuitStep =>
            /\ \A p \in Panes : /\ tm'.reader[p] = NoHandle
                                /\ tm'.cmd[p] = NoHandle
                                /\ tm'.pipe[p] = NoHandle
            /\ pool' = pool (+) QuitCleanups
       /\ \A t \in InPool({"cleanup"}) :
            (t.cmd = NoHandle /\ t.pipe = NoHandle /\ pool' = remove(pool, t))
               => procs' = procs]_vars

\* a Quit has been handled while one pane held its handles and the other had
\* released them
C6_Witness ==
    /\ last.msg = KeyMsg("q") /\ last.inView /\ ~last.inSearch
    /\ \A p \in Panes : tm.cmd[p] = NoHandle
    /\ \E c \in InPool({"cleanup"}) : c.cmd # NoHandle /\ c.pipe # NoHandle
    /\ \E c \in InPool({"cleanup"}) : c.cmd = NoHandle /\ c.pipe = NoHandle
    /\ \E h \in 1..Len(procs) : procs[h].kills = 1

\* C7: no process is killed more than once and no pipe is closed more than
\* once: every handle is handed to at most one cleanup task, run or in flight.
C7_HandleReleasedAtMostOnce ==
    \A h \in 1..Len(procs) :
        /\ procs[h].kills + KillsPending(h) <= 1
        /\ procs[h].closes + ClosesPending(h) <= 1

\* the process of an earlier session has been killed and its pipe closed, the
\* view has been opened again, and a late terminal event of the earlier
\* session has been handled there
C7_Witness ==
    /\ session = 2
    /\ last.msg.kind = "logLineMsg" /\ last.msg.terminal /\ last.inView
    /\ last.msg.sess = 1
    /\ \E h \in 1..Len(procs) :
          procs[h].sess = 1 /\ procs[h].kills = 1 /\ procs[h].closes = 1

\* nothing runs off the loop and no message is on its way
Quiescent == pool = EmptyBag

\* C8: once the user has quit and everything in flight has run, every follow
\* process that was spawned has been killed and its pipe closed, also when
\* the Quit was handled before the start result was delivered.
C8_EveryProcessReleased ==
    (Quiescent /\ ~main.inTailView)
        => \A h \in 1..Len(procs) : procs[h].kills >= 1 /\ procs[h].closes >= 1

----------------------------------------------------------------------------
(* Specification SpecBuf: the line buffers of one session under initial    *)
(* batches, streamed lines, clears, resizes and mode changes.  The window  *)
(* is narrow enough for the long line to wrap.                             *)

\* a line of two words that wraps at width 10, and a line with a carriage
\* return and a cursor movement code, which cleans to "b"
LongLine == <<"a", "a", "a", "a", "a", SP, "b", "b", "b", "b", "b", "b">>
ReturnLine == <<"a", CR, ESC, "[", "2", "K", "b", CR>>

BufSizes == {<<26, 10>>, <<40, 10>>}
BufPaths == {<<"out", "">>}
BufBatches == {<<LongLine>>, <<ReturnLine, <<"c">>, LongLine>>}
BufLines == {LongLine, ReturnLine}
BufKeys == {"c", "o", "l"}

InitBuf == InitOpened({<<26, 10>>}, {TailModeBoth}, BufPaths, {FALSE})

StartBuf == RunStart(BufBatches, {TRUE, FALSE})
ReadBuf == RunWait(BufLines, LifePartials)
PressBuf == Key(BufKeys)
ResizeBuf == Resize(BufSizes)

NextBuf ==
    \/ Deliver
    \/ StartBuf
    \/ ReadBuf
    \/ PressBuf
    \/ ResizeBuf
    \/ RunCleanup

SpecBuf == InitBuf /\ [][NextBuf]_vars

\* C1: in every state the raw lines of a pane are as many as its wrapped
\* blocks, and no more than the capacity.
C1_BufferSizes ==
    \A p \in Panes :
        /\ Len(tm.lines[p]) = Len(tm.wrapped[p])
        /\ Len(tm.lines[p]) <= MaxLogLines

\* a streamed line has evicted the oldest line of the full stdout buffer, in
\* a window that was resized, with both panes shown
C1_Witness ==
    /\ Len(arrived["stdout"]) > MaxLogLines
    /\ Len(tm.lines["stdout"]) = MaxLogLines
    /\ tm.width = 40
    /\ tm.mode = TailModeBoth
    /\ last.msg.kind = "logLineMsg"

\* C2: after k lines were put into the buffer of a pane, the buffer holds the
\* most recent min(k, N) of them, cleaned, in the order of arrival.
C2_BufferIsMostRecent ==
    main.inTailView =>
        \A p \in Panes : tm.lines[p] = LastN(arrived[p], MaxLogLines)

\* more lines than the capacity have arrived, two different ones among them,
\* and the oldest has been evicted by a streamed line
C2_Witness ==
    /\ Len(arrived["stdout"]) > MaxLogLines
    /\ last.msg.kind = "logLineMsg" /\ last.inView
    /\ tm.lines["stdout"] = <<LongLine, <<"b">> >>
    /\ arrived["stdout"][1] # LongLine

----------------------------------------------------------------------------
(* Specification SpecCopy: a selection made with the mouse in a session    *)
(* that shows the stdout pane, with mouse support on, and copied.  The     *)
(* pane is 10 columns wide and 5 rows high and holds 6 visual lines; its   *)
(* content starts at column 1, row 2.                                      *)

\* a line of three words that wraps into three visual lines at width 10
LongerLine == <<"a", "a", "a", "a", "a", "a", SP, "b", "b", "b", "b", "b", SP,
                "c", "c", "c", "c", "c">>

CopyEvents == {"leftPress", "leftMotion", "wheelUp", "wheelDown"}
CopyXs == {1, 3, 8}
CopyYs == {2, 4, 6}

InitCopy == InitOpened({<<12, 10>>}, {TailModeStdout}, BufPaths, {TRUE})

StartCopy == RunStart({<<LongerLine, LongerLine>>}, {TRUE})
MouseCopy == Mouse(CopyEvents, CopyXs, CopyYs)
PressCopy == Key({"ctrl+y"})

NextCopy ==
    \/ Deliver
    \/ StartCopy
    \/ MouseCopy
    \/ PressCopy

SpecCopy == InitCopy /\ [][NextCopy]_vars

----------------------------------------------------------------------------
(* Specification SpecTrim: a selection made with the mouse in a session    *)
(* with both panes, side by side, while streamed lines evict the oldest.   *)
(* The content of the stdout pane starts at column 1, that of the stderr   *)
(* pane at column 13, both at row 2.                                       *)

TrimEvents == {"leftPress", "leftMotion"}
TrimXs == {3, 14}
TrimYs == {2, 4, 6}

InitTrim == InitOpened({<<26, 10>>}, {TailModeBoth}, BufPaths, {TRUE})

StartTrim == RunStart({<<LongerLine, LongLine>>}, {TRUE})
ReadTrim == RunWait({LongLine}, LifePartials)
MouseTrim == Mouse(TrimEvents, TrimXs, TrimYs)

NextTrim ==
    \/ Deliver
    \/ StartTrim
    \/ ReadTrim
    \/ MouseTrim
    \/ RunCleanup

SpecTrim == InitTrim /\ [][NextTrim]_vars

----------------------------------------------------------------------------
(* Properties of the selection *)

\* the selection in the order of the text: <<first point, last point>>
SelectionRange ==
    LET a == tm.selectionAnchor
        c == tm.selectionCursor
    IN  IF a.line < c.line \/ (a.line = c.line /\ a.col <= c.col)
        THEN <<a, c>> ELSE <<c, a>>

\* the visual lines of the pane of the selection
SelectionLines ==
    IF tm.selectionPane \in Panes THEN flattenWrappedLines(tm.wrapped[tm.selectionPane])
    ELSE <<>>

\* the loop handles, in this step, the key that copies the selection
CopyStep ==
    /\ last'.msg = KeyMsg("ctrl+y")
    /\ last'.inView
    /\ ~last'.inSearch

\* C9: the text copied for a selection from line a, column ca, to line b,
\* column cb, with a < b inside the visual lines of the pane, is b - a + 1
\* lines joined by b - a line breaks: line a from column ca on, the lines
\* between in full, line b up to column cb; whether or not they are on screen.
C9_SelectedTextSpansRange ==
    [][(/\ CopyStep
        /\ tm.selectionPane \in Panes
        /\ SelectionRange[1].line >= 0
        /\ SelectionRange[1].line < SelectionRange[2].line
        /\ SelectionRange[2].line < Len(SelectionLines))
       => LET V == SelectionLines
              a == SelectionRange[1].line
              b == SelectionRange[2].line
              ca == SelectionRange[1].col
              cb == SelectionRange[2].col
              out == SplitNL(clipboard')
          IN  /\ CountNL(clipboard') = b - a
              /\ Len(out) = b - a + 1
              /\ out[1] = SubSeq(V[a + 1], ca + 1, Len(V[a + 1]))
              /\ out[b - a + 1] = SubSeq(V[b + 1], 1, Min(cb, Len(V[b + 1])))
              /\ \A i \in 2..(b - a) : out[i] = V[a + i]]_vars

\* a selection of three lines or more whose first line is scrolled off the
\* screen has been copied, and the columns cut the first and the last line
C9_Witness ==
    /\ last.msg = KeyMsg("ctrl+y") /\ last.inView
    /\ tm.selectionPane = "stdout"
    /\ SelectionRange[2].line - SelectionRange[1].line >= 2
    /\ SelectionRange[1].line < tm.view["stdout"].YOffset
    /\ SelectionRange[1].col > 0
    /\ SelectionRange[2].col > 0
    /\ SelectionRange[2].col < Len(SelectionLines[SelectionRange[2].line + 1])
    /\ CountNL(clipboard) = SelectionRange[2].line - SelectionRange[1].line

\* the visual lines of the first e blocks
RECURSIVE VisualLinesOf(_, _)
VisualLinesOf(blocks, e) ==
    IF e <= 0 \/ blocks = <<>> THEN 0
    ELSE CountNL(Head(blocks)) + 1 + VisualLinesOf(Tail(blocks), e - 1)

\* the visual lines the line event handled in this step evicts from its pane
EvictedByStep ==
    LET p == last'.msg.pane
        appended == Len(arrived'[p]) - Len(arrived[p])
        evicted == Len(tm.wrapped[p]) + appended - Len(tm'.wrapped[p])
    IN  VisualLinesOf(tm.wrapped[p], evicted)

\* C10: when k visual lines are evicted from the pane of the selection, the
\* lines of anchor and cursor decrease by k; the selection is cleared when
\* both would be negative, otherwise a negative one becomes 0; a selection in
\* the other pane is unchanged.
C10_SelectionFollowsEviction ==
    [][(/\ last'.msg.kind = "logLineMsg"
        /\ last'.inView
        /\ ~last'.inSearch)
       => LET p == last'.msg.pane
              k == EvictedByStep
              a == tm.selectionAnchor.line - k
              c == tm.selectionCursor.line - k
          IN  IF tm.selectionPane # p \/ k = 0
              THEN /\ tm'.selectionPane = tm.selectionPane
                   /\ tm'.selectionAnchor = tm.selectionAnchor
                   /\ tm'.selectionCursor = tm.selectionCursor
              ELSE IF a < 0 /\ c < 0
              THEN /\ tm'.selectionPane = ""
                   /\ ~tm'.selecting
                   /\ tm'.selectionAnchor = [line |-> 0, col |-> 0]
                   /\ tm'.selectionCursor = [line |-> 0, col |-> 0]
              ELSE /\ tm'.selectionPane = p
                   /\ tm'.selectionAnchor =
                        [line |-> Max(0, a), col |-> tm.selectionAnchor.col]
                   /\ tm'.selectionCursor =
                        [line |-> Max(0, c), col |-> tm.selectionCursor.col]]_vars

\* a streamed line has evicted visual lines of the stdout pane under a
\* selection there that reached into the evicted lines and beyond them
C10_Witness ==
    /\ last.msg.kind = "logLineMsg" /\ last.inView /\ ~last.inSearch
    /\ last.msg.pane = "stdout"
    /\ Len(arrived["stdout"]) > MaxLogLines
    /\ tm.selectionPane = "stdout"
    /\ tm.selectionAnchor.line = 0
    /\ tm.selectionAnchor.col > 0
    /\ tm.selectionCursor.line > 0

----------------------------------------------------------------------------
(* Specification SpecFollow: one session with both panes side by side,     *)
(* each 10 columns wide and 5 rows high, with mouse support on.  The       *)
(* initial batch and the streamed lines have four visual lines each: the   *)
(* first streamed line fills the buffer of a pane and the next ones evict  *)
(* the oldest, while keys and the wheel scroll the panes.                  *)

\* a line of four words that wraps into four visual lines at width 10
FourLine == <<"a", "a", "a", "a", "a", "a", SP, "b", "b", "b", "b", "b", SP,
              "c", "c", "c", "c", "c", SP, "d", "d", "d", "d", "d", "d">>

FollowPaths == {<<"out", "">>}
FollowKeys == {"up", "k", "pgup", "down", "f", "b", "G", "t", "p", "tab"}
FollowWheel == {"wheelUp", "wheelDown"}
FollowXs == {3, 14}
FollowYs == {3}

NextFollow ==
    \/ Deliver
    \/ RunStart({<<FourLine>>}, {TRUE})
    \/ RunWait({FourLine, LongLine}, LifePartials)
    \/ Key(FollowKeys)
    \/ Mouse(FollowWheel, FollowXs, FollowYs)
    \/ RunCleanup

SpecFollow ==
    InitOpened({<<26, 10>>}, {TailModeBoth}, FollowPaths, {TRUE}) /\ [][NextFollow]_vars

----------------------------------------------------------------------------
(* Properties of follow and scrolling *)

\* the number of visual lines of the pane, and the scroll offset at which its
\* last line is the last row of the viewport
ShownLines(m, p) == Len(flattenWrappedLines(m.wrapped[p]))
BottomOffset(m, p) == Max(0, ShownLines(m, p) - m.view[p].Height)

\* the loop handles, in this step, a line event that appends to its pane
AppendStep ==
    /\ last'.msg.kind = "logLineMsg"
    /\ last'.inView
    /\ ~last'.inSearch
    /\ linesOfEvent(last'.msg) # <<>>

\* C11: when a line is appended to a pane that is following, not paused and
\* scrolled to the bottom, the pane is scrolled to the bottom of its new
\* content after the append, also when the append evicts, and it is still
\* following and not paused: so it stays at the bottom from append to append.
C11_AppendKeepsBottom ==
    [][(/\ AppendStep
        /\ tm.following
        /\ ~tm.paused
        /\ tm.view[last'.msg.pane].YOffset >= BottomOffset(tm, last'.msg.pane))
       => /\ tm'.view[last'.msg.pane].YOffset = BottomOffset(tm', last'.msg.pane)
          /\ tm'.following
          /\ ~tm'.paused]_vars

\* a streamed line has evicted the oldest block of the stdout pane, which is
\* following and shows the end of a content longer than its height
C11_Witness ==
    /\ last.msg.kind = "logLineMsg" /\ last.inView /\ ~last.inSearch
    /\ last.msg.pane = "stdout"
    /\ Len(arrived["stdout"]) > MaxLogLines
    /\ tm.following /\ ~tm.paused
    /\ BottomOffset(tm, "stdout") > 0
    /\ tm.view["stdout"].YOffset = BottomOffset(tm, "stdout")

\* the loop handles, in this step, a key outside the search overlay
KeyStep(keys) ==
    /\ last'.msg.kind = "key"
    /\ last'.msg.key \in keys
    /\ last'.inView
    /\ ~last'.inSearch

\* the loop handles, in this step, a mouse event outside the search overlay
MouseStep(events) ==
    /\ last'.msg.kind = "mouse"
    /\ last'.msg.ev \in events
    /\ last'.inView
    /\ ~last'.inSearch

\* C12: a key that scrolls up (up, k, pgup) and a wheel up set the follow
\* flag to false, and the flag goes from false to true only in a step that
\* handles the Follow key or the Bottom key: not on line arrivals, scroll
\* down or any other event.
C12_ScrollUpEndsFollow ==
    [][/\ (KeyStep({"up", "k", "pgup"}) \/ MouseStep({"wheelUp"})) => ~tm'.following
       /\ (~tm.following /\ tm'.following) => KeyStep({"f", "b", "G"})]_vars

\* after a scroll up by one row has ended follow, a streamed line has been
\* appended to the stdout pane and has left the pane above its bottom
C12_Witness ==
    /\ last.msg.kind = "logLineMsg" /\ last.inView /\ ~last.inSearch
    /\ last.msg.pane = "stdout"
    /\ Len(arrived["stdout"]) >= MaxLogLines
    /\ ~tm.following
    /\ BottomOffset(tm, "stdout") > 0
    /\ tm.view["stdout"].YOffset = BottomOffset(tm, "stdout") - 1

----------------------------------------------------------------------------
(* Specification SpecSearch: a session that shows the stdout pane, 10      *)
(* columns wide and 5 rows high, with two blocks of four visual lines      *)
(* each.  The user scrolls, types a query of one or two runes into the     *)
(* search overlay and finds forward and backward.                          *)

SearchKeys == {"/", "B", "enter", "n", "N", "up"}

NextSearch ==
    \/ Deliver
    \/ RunStart({<<FourLine, FourLine>>}, {TRUE})
    \/ Key(SearchKeys)

SpecSearch ==
    InitOpened({<<12, 10>>}, {TailModeStdout}, BufPaths, {FALSE}) /\ [][NextSearch]_vars

----------------------------------------------------------------------------
(* Properties of the search *)

\* the loop handles, in this step, a key that finds: enter in the overlay,
\* or n or N outside it with a query remembered
FindStep ==
    /\ last'.msg.kind = "key"
    /\ last'.inView
    /\ IF last'.inSearch THEN last'.msg.key = "enter"
       ELSE last'.msg.key \in {"n", "N"} /\ tm.lastSearch # <<>>

FindQuery == IF tm.inSearchMode THEN tm.searchValue ELSE tm.lastSearch
FindForward == last'.msg.key # "N"

\* the visual lines of the pane searched, and the indices of those that hold
\* the query, letter case apart
FindLines == flattenWrappedLines(tm.wrapped[activeViewPane(tm)])
FindMatches ==
    {i \in 0..(Len(FindLines) - 1) :
        \E j \in 1..Len(FindLines[i + 1]) :
            /\ j + Len(FindQuery) - 1 <= Len(FindLines[i + 1])
            /\ \A k \in 1..Len(FindQuery) :
                  LowerOf(FindLines[i + 1][j + k - 1]) = LowerOf(FindQuery[k])}

\* how far line i is from the scroll offset in the cyclic order of the search
FindDistance(i) ==
    LET n == Len(FindLines)
        y == tm.view[activeViewPane(tm)].YOffset
    IN  IF FindForward THEN (i - y - 1 + 2 * n) % n ELSE (y - 1 - i + 2 * n) % n

\* C13: a find with a query that is not empty, in a pane whose visual lines
\* hold a match, sets the scroll offset of the pane to the index of the first
\* matching visual line in cyclic order after (forward) or before (backward)
\* the current offset, and ends follow; also when lines wrap.
C13_FindScrollsToMatch ==
    [][(/\ FindStep
        /\ FindQuery # <<>>
        /\ FindMatches # {})
       => /\ tm'.view[activeViewPane(tm)].YOffset \in FindMatches
          /\ \A j \in FindMatches :
                FindDistance(tm'.view[activeViewPane(tm)].YOffset) <= FindDistance(j)
          /\ ~tm'.following]_vars

----------------------------------------------------------------------------
(* Specification SpecClean: a session that shows the stdout pane and takes *)
(* raw lines with carriage returns, in the initial batch, in streamed      *)
(* lines and in the partial line before the end of the stream.             *)

\* "a<CR>b"; the same with trailing carriage returns; carriage returns only;
\* and a cursor code after a carriage return
OverwriteLine == <<"a", CR, "b">>
TrailingLine == <<"a", CR, "b", CR, CR>>
OnlyReturns == <<CR, CR>>
CodeAfterReturn == <<"a", CR, ESC, "[", "K">>

CleanBatches == {<<OverwriteLine, CodeAfterReturn, ReturnLine>>, <<TrailingLine>>}
CleanLines == {TrailingLine, OnlyReturns, <<"a">>}
CleanPartials == {<<>>, OverwriteLine}

NextClean ==
    \/ Deliver
    \/ RunStart(CleanBatches, {TRUE})
    \/ RunWait(CleanLines, CleanPartials)
    \/ RunCleanup

SpecClean ==
    InitOpened({<<26, 10>>}, {TailModeStdout}, BufPaths, {FALSE}) /\ [][NextClean]_vars

----------------------------------------------------------------------------
(* Properties of the cleaning *)

NoReturn(s) == \A i \in 1..Len(s) : s[i] # CR

\* t without its trailing carriage returns
WithoutTrailingReturns(t) ==
    LET ends == {n \in 0..Len(t) :
                    /\ \A i \in (n + 1)..Len(t) : t[i] = CR
                    /\ n = 0 \/ t[n] # CR}
    IN  SubSeq(t, 1, CHOOSE n \in ends : TRUE)

\* s is what is to be stored for the raw line: no carriage return in it, and it
\* is the text after the last carriage return that is left once the cursor
\* codes and the trailing carriage returns are gone
StoredFrom(raw, s) ==
    LET u == WithoutTrailingReturns(stripAnsiCursorFrom(raw, 1))
    IN  /\ NoReturn(s)
        /\ Len(s) <= Len(u)
        /\ s = SubSeq(u, Len(u) - Len(s) + 1, Len(u))
        /\ Len(s) = Len(u) \/ u[Len(u) - Len(s)] = CR

\* the raw lines the message handled in this step puts into the buffer
RawLinesOfStep ==
    IF last'.msg.kind = "logLineMsg" THEN linesOfEvent(last'.msg)
    ELSE last'.msg.initialLines

\* C14: no stored line holds a carriage return, and the lines a start result
\* or a line event stores are the raw lines without their trailing carriage
\* returns, cut to the text after the last carriage return left.
C14_StoredLinesHaveNoReturn ==
    [][/\ \A p \in Panes : \A i \in 1..Len(tm'.lines[p]) : NoReturn(tm'.lines[p][i])
       /\ (/\ last'.msg.kind \in {"logLineMsg", "tailStartMsg"}
           /\ last'.inView
           /\ ~last'.inSearch)
          => LET raws == RawLinesOfStep
                 stored == tm'.lines[last'.msg.pane]
                 n == Min(Len(raws), MaxLogLines)
             IN  /\ Len(stored) >= n
                 /\ \A i \in 1..n :
                       StoredFrom(raws[Len(raws) - i + 1],
                                  stored[Len(stored) - i + 1])]_vars

\* a streamed line with a carriage return in its middle and two at its end
\* has been stored as the text after the middle one
C14_Witness ==
    /\ last.msg.kind = "logLineMsg" /\ last.inView /\ ~last.inSearch
    /\ last.msg.line = TrailingLine
    /\ tm.lines["stdout"] # <<>>
    /\ tm.lines["stdout"][Len(tm.lines["stdout"])] = <<"b">>

----------------------------------------------------------------------------
(* Specification SpecPanes: a session with both panes side by side, each   *)
(* with two blocks of four visual lines in 5 rows, scrolled apart with the *)
(* keys and moved to the top and the bottom.                               *)

PanesKeys == {"b", "G", "t", "home", "g", "tab", "up", "down", "pgup"}

NextPanes ==
    \/ Deliver
    \/ RunStart({<<FourLine, FourLine>>}, {TRUE})
    \/ Key(PanesKeys)

SpecPanes ==
    InitOpened({<<26, 10>>}, {TailModeBoth}, LifePaths, {FALSE}) /\ [][NextPanes]_vars

\* the pane that has the focus in dual-pane mode, and the other one
FocusPane == IF tm.activePane = 0 THEN "stdout" ELSE "stderr"
OtherPane == IF tm.activePane = 0 THEN "stderr" ELSE "stdout"

\* C15: in dual-pane mode the Bottom key puts the active pane at its bottom
\* and enables follow, the Top key puts the active pane at its top and
\* disables follow; the viewport of the other pane is unchanged, and the
\* active pane is not scrolled any further by the key.
C15_BottomTopActivePaneOnly ==
    [][/\ (KeyStep({"b", "G"}) /\ tm.mode = TailModeBoth)
          => /\ tm'.view[FocusPane].YOffset = BottomOffset(tm, FocusPane)
             /\ tm'.view[OtherPane] = tm.view[OtherPane]
             /\ tm'.following
       /\ (KeyStep({"t", "home", "g"}) /\ tm.mode = TailModeBoth)
          => /\ tm'.view[FocusPane].YOffset = 0
             /\ tm'.view[OtherPane] = tm.view[OtherPane]
             /\ ~tm'.following]_vars

\* the Bottom key has moved the stderr pane, scrolled up before, to its
\* bottom while the stdout pane stays in the middle of its content
C15_Witness ==
    /\ last.msg = KeyMsg("b") /\ last.inView /\ ~last.inSearch
    /\ tm.mode = TailModeBoth
    /\ tm.activePane = 1
    /\ tm.view["stderr"].YOffset = BottomOffset(tm, "stderr")
    /\ BottomOffset(tm, "stderr") >= 2
    /\ tm.view["stdout"].YOffset = 1
    /\ tm.following

----------------------------------------------------------------------------
(* Specification SpecDrag: a session with both panes side by side and      *)
(* mouse support on.  The frame of the stdout pane takes columns 0..11,    *)
(* that of the stderr pane columns 12..23, both rows 0..7; the content of  *)
(* a pane is 10 columns wide and 5 rows high and starts one column right   *)
(* of the frame, at row 2.  The stdout pane holds 8 visual lines.  The     *)
(* pointer visits a border column, a header row, the content of both       *)
(* panes and a column right of both frames.                                *)

DragEvents == {"leftPress", "leftMotion", "release", "wheelUp", "wheelDown"}
DragXs == {3, 14, 25}
DragYs == {1, 3}

NextDrag ==
    \/ Deliver
    \/ RunStart({<<FourLine, FourLine>>}, {TRUE})
    \/ Mouse(DragEvents, DragXs, DragYs)

SpecDrag ==
    InitOpened({<<26, 10>>}, {TailModeBoth}, FollowPaths, {TRUE}) /\ [][NextDrag]_vars

----------------------------------------------------------------------------
(* Properties of the mouse *)

\* the pointer of the mouse event handled in this step is on the content
\* rectangle of the pane, and on its frame
OnContent(p) ==
    LET g == paneGeometry(tm, p)
    IN  /\ g.ok
        /\ last'.msg.X >= g.contentX /\ last'.msg.X < g.contentX + g.contentWidth
        /\ last'.msg.Y >= g.contentY /\ last'.msg.Y < g.contentY + g.contentHeight

OnFrame(p) ==
    LET g == paneGeometry(tm, p)
    IN  /\ g.ok
        /\ last'.msg.X >= g.x /\ last'.msg.X < g.x + g.width
        /\ last'.msg.Y >= g.y /\ last'.msg.Y < g.y + g.height

\* C17: a left press whose position is on the content rectangle of no pane
\* starts no selection: the pane, the anchor and the cursor of the selection,
\* the selecting flag and the follow flag are unchanged.
C17_PressOutsideContentIgnored ==
    [][(MouseStep({"leftPress"}) /\ \A p \in Panes : ~OnContent(p))
       => /\ tm'.selectionPane = tm.selectionPane
          /\ tm'.selectionAnchor = tm.selectionAnchor
          /\ tm'.selectionCursor = tm.selectionCursor
          /\ tm'.selecting = tm.selecting
          /\ tm'.following = tm.following]_vars

\* a press on the header row of the stdout pane has been handled while the
\* view was following, and a press right of both frames while a selection of
\* the stdout pane was held: both have changed nothing
C17_Witness ==
    /\ last.msg.kind = "mouse" /\ last.msg.ev = "leftPress"
    /\ last.inView /\ ~last.inSearch
    /\ \/ last.msg.Y = 1 /\ last.msg.X = 3 /\ tm.following /\ tm.selectionPane = ""
       \/ /\ last.msg.X = 25 /\ last.msg.Y = 3
          /\ tm.selectionPane = "stdout"
          /\ tm.selectionAnchor # tm.selectionCursor
          /\ ~tm.following

\* a drag is active: the button is held and a pane is selected in
Dragging == tm.selecting /\ tm.selectionPane # ""

\* the valid point of the pane p of m that is nearest to the pointer at x, y:
\* the row and the column are brought into the content rectangle, then the
\* line into the visual lines of the pane and the column into the line
NearestPoint(m, p, x, y) ==
    LET g == paneGeometry(m, p)
        lines == paneVisualLines(m, p)
        row == Max(0, Min(y - g.contentY, g.contentHeight - 1))
        line == Max(0, Min(m.view[p].YOffset + row, Len(lines) - 1))
    IN  IF Len(lines) = 0 THEN NoPoint
        ELSE [line |-> line,
              col |-> Max(0, Min(x - g.contentX, runeLen(lines[line + 1])))]

\* C18: while a drag is active, a motion or a release at a position off the
\* content rectangle of the selection pane, off its frame included, moves the
\* selection cursor to the nearest valid line and column of that pane.
C18_DragOutsideClamps ==
    [][(/\ MouseStep({"leftMotion", "release"})
        /\ Dragging
        /\ ~OnContent(tm.selectionPane))
       => tm'.selectionCursor =
              NearestPoint(tm, tm.selectionPane, last'.msg.X, last'.msg.Y)]_vars

\* the same, for the positions on the frame of the selection pane
DragOnFrameClamps ==
    [][(/\ MouseStep({"leftMotion", "release"})
        /\ Dragging
        /\ OnFrame(tm.selectionPane))
       => tm'.selectionCursor =
              NearestPoint(tm, tm.selectionPane, last'.msg.X, last'.msg.Y)]_vars

\* the lines of the selected text, and the lines between anchor and cursor
SelectedLineCount(m) == CountNL(selectedText(m)) + 1
SpanOfSelection(m) ==
    Max(m.selectionCursor.line - m.selectionAnchor.line,
        m.selectionAnchor.line - m.selectionCursor.line) + 1

\* the pane a wheel event scrolls: the pane under the pointer, else the
\* active one
WheelTarget ==
    IF \E p \in Panes : OnFrame(p) THEN CHOOSE p \in Panes : OnFrame(p)
    ELSE activeViewPane(tm)

\* what a wheel event does to a drag
WheelDragEffect ==
    /\ tm'.view[WheelTarget] = viewportWheel(tm.view[WheelTarget], last'.msg.ev)
    /\ tm'.selectionCursor =
           NearestPoint(tm', tm.selectionPane, last'.msg.X, last'.msg.Y)
    /\ tm'.selecting
    /\ tm'.selectionPane = tm.selectionPane
    /\ tm'.selectionAnchor = tm.selectionAnchor
    /\ SelectedLineCount(tm') = SpanOfSelection(tm')

\* C16: while a drag is active, a wheel event scrolls the target pane, then
\* sets the selection cursor from the pointer against the scrolled offset of
\* the selection pane; the drag stays active, the anchor is unchanged, and
\* the selected text spans the lines from the anchor to the cursor.
C16_WheelWhileDragging ==
    [][(MouseStep({"wheelUp", "wheelDown"}) /\ Dragging) => WheelDragEffect]_vars

\* the same, for the positions on the frame of the selection pane
WheelOnFrameDrags ==
    [][(/\ MouseStep({"wheelUp", "wheelDown"})
        /\ Dragging
        /\ OnFrame(tm.selectionPane))
       => WheelDragEffect]_vars

----------------------------------------------------------------------------
(* Specification SpecSwitch: a session with both panes side by side and    *)
(* mouse support on, in a 26x10 terminal that can grow to 40x12.  A press  *)
(* and a release on the content of the stdout pane make a selection; the   *)
(* keys switch the pane, change the mode, open the search overlay and      *)
(* enter copy mode; the overlay is closed with an empty query.             *)

SwitchKeys == {"tab", "o", "e", "l", "/", "y"}
SwitchSizes == {<<26, 10>>, <<40, 12>>}

NextSwitch ==
    \/ Deliver
    \/ RunStart({<<FourLine>>}, {TRUE})
    \/ Mouse({"leftPress", "release"}, {3}, {3})
    \/ ~tm.inSearchMode /\ Key(SwitchKeys)
    \/ tm.inSearchMode /\ Key({"enter"})
    \/ Resize(SwitchSizes)

SpecSwitch ==
    InitOpened({<<26, 10>>}, {TailModeBoth}, FollowPaths, {TRUE})
        /\ [][NextSwitch]_vars

----------------------------------------------------------------------------
(* Properties of the states that empty the selection *)

SelectionEmpty(m) == m.selectionPane = "" /\ ~m.selecting

\* C19: after a pane switch, which is the Tab key in dual-pane mode or a mode
\* key (o, e, l) that changes the panes shown, the selection is empty.
C19_PaneSwitchClearsSelection ==
    [][(\/ KeyStep({"tab"}) /\ tm.mode = TailModeBoth
        \/ KeyStep({"o", "e", "l"}) /\ tm'.mode # tm.mode)
       => SelectionEmpty(tm')]_vars

\* the loop handles, in this step, a resize of the open view to another size
ResizeStep ==
    /\ last'.msg.kind = "resize"
    /\ last'.inView
    /\ last'.msg.Width # tm.width \/ last'.msg.Height # tm.height

\* C20: after a resize event that changes the width or the height of the
\* terminal the selection is empty, whether the view is viewing, searching
\* or in copy mode.
C20_ResizeClearsSelection ==
    [][ResizeStep => SelectionEmpty(tm')]_vars

\* the same, for the resize events that arrive outside the search overlay
ResizeOutsideSearchClears ==
    [][(ResizeStep /\ ~tm.inSearchMode) => SelectionEmpty(tm')]_vars

----------------------------------------------------------------------------
(* Specification SpecLayout: one session opened in a terminal of 26x10 or  *)
(* of 1x1.  The terminal reports the size 40x12, a tiny size and a zero    *)
(* size; the keys change the mode and the orientation and open the search  *)
(* overlay, which is closed with an empty query.  The stdout pane holds    *)
(* one line of 25 characters.                                              *)

LayoutInitSizes == {<<1, 1>>, <<26, 10>>}
LayoutSizes == {<<0, 0>>, <<1, 1>>, <<40, 12>>}
LayoutKeys == {"o", "l", "s", "/"}

NextLayout ==
    \/ Deliver
    \/ RunStart({<<FourLine>>}, {TRUE})
    \/ ~tm.inSearchMode /\ Key(LayoutKeys)
    \/ tm.inSearchMode /\ Key({"enter"})
    \/ Resize(LayoutSizes)

SpecLayout ==
    InitOpened(LayoutInitSizes, {TailModeBoth}, FollowPaths, {FALSE})
        /\ [][NextLayout]_vars

----------------------------------------------------------------------------
(* Properties of the layout *)

\* the content width of a pane in a terminal w columns wide
PaneWidth(m, w, p) ==
    IF m.mode = TailModeBoth /\ ~m.stacked
    THEN (IF p = "stdout" THEN Max(20, w - 6) \div 2
          ELSE Max(20, w - 6) - (Max(20, w - 6) \div 2))
    ELSE Max(10, w - 4)

\* the content height of a pane in a terminal h rows high; the search overlay
\* takes searchOverlayHeight rows while it is open
PaneHeight(m, h, p) ==
    LET rows == Max(5, h - 5 - (IF m.inSearchMode THEN searchOverlayHeight ELSE 0))
    IN  IF m.mode = TailModeBoth /\ m.stacked
        THEN (IF p = "stdout" THEN rows \div 2 ELSE rows - (rows \div 2))
        ELSE rows

\* the panes of m are laid out for a terminal of the size sz and every block
\* is the wrap of its raw line at the width of its pane
LaidOut(m, sz) ==
    \A p \in Panes :
        /\ m.view[p].Width = PaneWidth(m, sz[1], p)
        /\ m.view[p].Height = PaneHeight(m, sz[2], p)
        /\ Len(m.wrapped[p]) = Len(m.lines[p])
        /\ \A i \in 1..Len(m.lines[p]) :
               m.wrapped[p][i] = wrapLine(m.lines[p][i], m.view[p].Width)

\* the size the terminal has reported most recently, after the step: that of
\* the resize event the step handles, where a width or a height that is not
\* positive stands for the one known before
ReportedSize ==
    IF last'.msg.kind = "resize"
    THEN <<IF last'.msg.Width > 0 THEN last'.msg.Width ELSE tm.width,
           IF last'.msg.Height > 0 THEN last'.msg.Height ELSE tm.height>>
    ELSE <<tm.width, tm.height>>

\* C21: the content width and height of each pane are those of the layout
\* for the most recently reported terminal size, the mode, the orientation
\* and the search overlay, and every wrapped block is the wrap of its raw
\* line at that width, after every event the open view handles; a resize
\* that arrives while the search overlay is open is one of them.
C21_LayoutFollowsInputs ==
    [][last'.inView
       => /\ <<tm'.width, tm'.height>> = ReportedSize
          /\ LaidOut(tm', ReportedSize)]_vars

\* the same, for the events that arrive outside the search overlay
LayoutOutsideSearch ==
    [][(last'.inView /\ ~last'.inSearch)
       => /\ <<tm'.width, tm'.height>> = ReportedSize
          /\ LaidOut(tm', ReportedSize)]_vars

\* the layout matches the size the TailModel holds, in every state
LayoutOfHeldSize == main.inTailView => LaidOut(tm, <<tm.width, tm.height>>)

\* C25: after construction and after every resize, mode, orientation and
\* search-overlay event, for every reported terminal size, zero and tiny
\* ones included, the content width and the content height of every pane
\* are at least 1.
C25_PanesNeverCollapse ==
    \A p \in Panes : tm.view[p].Width >= 1 /\ tm.view[p].Height >= 1

\* a tiny size has been reported to the view, which holds it, while both
\* panes are stacked and the search overlay is open
C25_Witness ==
    /\ main.inTailView
    /\ tm.width = 1 /\ tm.height = 1
    /\ tm.mode = TailModeBoth /\ tm.stacked
    /\ tm.inSearchMode
    /\ tm.lines["stdout"] # <<>>

----------------------------------------------------------------------------
(* Specification SpecCopyMode: one session opened with both panes, mouse   *)
(* support on or off.  The keys enter and leave copy mode, change the      *)
(* mode, switch the pane, and toggle the orientation, the borders and the  *)
(* mouse.                                                                  *)

CopyModeKeys == {"y", "o", "l", "tab", "s", "x", "m"}

NextCopyMode ==
    \/ Deliver
    \/ RunStart({<< <<"a">> >>}, {TRUE})
    \/ Key(CopyModeKeys)

SpecCopyMode ==
    InitOpened({<<26, 10>>}, {TailModeBoth}, FollowPaths, {FALSE, TRUE})
        /\ [][NextCopyMode]_vars

----------------------------------------------------------------------------
(* Properties of copy mode *)

\* C22: while copy mode is active the view shows one pane, never both, and
\* the borders are hidden; the border toggle and the layout toggle change
\* nothing while copy mode is active.
C22_CopyModeSinglePaneNoBorders ==
    /\ [](tm.copyMode => tm.mode # TailModeBoth /\ ~tm.showBorders)
    /\ [][(KeyStep({"x", "s"}) /\ tm.copyMode) => tm' = tm]_vars

\* copy mode is active after it was entered from the dual-pane view with
\* borders, and a border or layout toggle has just been handled in it
C22_Witness ==
    /\ tm.copyMode
    /\ tm.prevMode = TailModeBoth /\ tm.prevShowBorders
    /\ last.msg.kind = "key" /\ last.msg.key \in {"x", "s"} /\ last.inView

\* the display settings copy mode puts back, and their remembered values
Display(m) == <<m.mode, m.showBorders, m.stacked, m.activePane>>
Remembered(m) == <<m.prevMode, m.prevShowBorders, m.prevStacked, m.prevActivePane>>

\* the copy-mode key enters, and leaves, copy mode in this step
EnterCopyStep == KeyStep({"y"}) /\ ~tm.copyMode
ExitCopyStep == KeyStep({"y"}) /\ tm.copyMode

\* C23: leaving copy mode with the copy-mode key puts back the mode, the
\* border visibility, the orientation and the active pane that held when
\* copy mode was entered, whatever keys were pressed in between: the entry
\* remembers them, nothing changes what is remembered while copy mode lasts,
\* and the exit restores what is remembered.
C23_ExitRestoresDisplay ==
    [][/\ EnterCopyStep => tm'.copyMode /\ Remembered(tm') = Display(tm)
       /\ (tm.copyMode /\ tm'.copyMode) => Remembered(tm') = Remembered(tm)
       /\ ExitCopyStep => ~tm'.copyMode /\ Display(tm') = Remembered(tm)]_vars

\* copy mode has just been left with the copy-mode key and the dual-pane
\* view with the stderr pane active, stacked and with borders, is back; the
\* mouse, off at the entry, was toggled while copy mode was active
C23_Witness ==
    /\ last.msg.kind = "key" /\ last.msg.key = "y" /\ last.inView
    /\ ~tm.copyMode
    /\ tm.mode = TailModeBoth /\ tm.activePane = 1
    /\ tm.stacked /\ tm.showBorders
    /\ ~tm.prevMouseEnabled /\ tm.mouseEnabled

\* C24: entering copy mode turns mouse reporting off, and leaving it puts
\* back the setting that held at the entry, on or off, whatever mouse
\* toggles were made while copy mode was active.
C24_ExitRestoresMouse ==
    [][/\ EnterCopyStep => /\ ~tm'.mouseEnabled
                           /\ tm'.prevMouseEnabled = tm.mouseEnabled
       /\ (tm.copyMode /\ tm'.copyMode) => tm'.prevMouseEnabled = tm.prevMouseEnabled
       /\ ExitCopyStep => tm'.mouseEnabled = tm.prevMouseEnabled]_vars

\* the same, for the exits that find the mouse setting as the entry left it
MouseRestoredWhenUntouched ==
    [][/\ EnterCopyStep => /\ ~tm'.mouseEnabled
                           /\ tm'.prevMouseEnabled = tm.mouseEnabled
       /\ (tm.copyMode /\ tm'.copyMode) => tm'.prevMouseEnabled = tm.prevMouseEnabled
       /\ (ExitCopyStep /\ ~tm.mouseEnabled)
             => tm'.mouseEnabled = tm.prevMouseEnabled]_vars

----------------------------------------------------------------------------
(* Specification SpecPaths: the stderr view of a job is opened, quit and   *)
(* opened again, for a job with a stderr file and for one without.  The    *)
(* spawn of the follow process succeeds or fails after the bulk read has   *)
(* given one line.                                                         *)

PathsPairs == {<<"", "err">>, <<"", "">>}
FileLines == {<<"a">>}

NextPaths ==
    \/ PressTail({TailModeStderr}, PathsPairs)
    \/ Deliver
    \/ Key({"q"})
    \/ RunStart({<< <<"a">> >>}, {TRUE, FALSE})
    \/ RunWait(FileLines, {<<>>})
    \/ RunCleanup

SpecPaths == InitWith(LifeSizes) /\ [][NextPaths]_vars

----------------------------------------------------------------------------
(* Properties of the start of a follower *)

\* the pane p of the open view has no reader, process or pipe, no
\* wait-for-line of this session is in flight for it, no process was spawned
\* for it in this session, and a start result in flight for it carries the
\* placeholder lines and no handle
Detached(p) ==
    /\ tm.reader[p] = NoHandle /\ tm.cmd[p] = NoHandle /\ tm.pipe[p] = NoHandle
    /\ \A t \in InPool({"wait"}) : ~(t.pane = p /\ t.sess = session)
    /\ \A h \in 1..Len(procs) : ~(procs[h].pane = p /\ procs[h].sess = session)
    /\ \A r \in InPool({"tailStartMsg"}) :
           (r.pane = p /\ r.sess = session)
               => r.initialLines = NoPathLines /\ r.reader = NoHandle

\* C26: a pane whose file path is empty gets no follow process: its start
\* result carries the placeholder lines only, and the pane never has a
\* reader, a process or a pipe and never issues a wait-for-line.
C26_PathlessPaneNeverFollows ==
    \A p \in Panes : (main.inTailView /\ tm.path[p] = "") => Detached(p)

\* the same, as long as the view has been opened once only
PathlessFirstSession ==
    \A p \in Panes :
        (main.inTailView /\ tm.path[p] = "" /\ session = 1) => Detached(p)

\* the loop handles, in this step, the start result of this session for a
\* pane with a file path, whose follow process could not be started
StartFailedStep ==
    /\ last'.msg.kind = "tailStartMsg"
    /\ last'.inView /\ ~last'.inSearch
    /\ last'.msg.sess = session
    /\ last'.msg.startErr
    /\ tm.path[last'.msg.pane] # ""

\* the pane p of m shows a line that is not a line of the file
ShowsDiagnostic(m, p) ==
    \E i \in 1..Len(m.lines[p]) : m.lines[p][i] \notin FileLines

\* no wait-for-line is added to the pool for the pane p in this step
NoWaitIssued(p) ==
    \A t \in InPool({"wait"})' : t.pane = p => CopiesIn(t, pool') <= CopiesIn(t, pool)

\* C27: when the follow process of a pane cannot be started, the content of
\* the pane shows an error that describes the failure, and the pane attaches
\* no reader and issues no wait-for-line, also when the bulk read of the
\* file before it has succeeded.
C27_StartFailureShown ==
    [][StartFailedStep
       => /\ ShowsDiagnostic(tm', last'.msg.pane)
          /\ tm'.reader[last'.msg.pane] = NoHandle
          /\ NoWaitIssued(last'.msg.pane)]_vars

\* the same without the error shown, as long as the view has been opened
\* once only: no reader and no wait-for-line
StartFailureStartsNoReader ==
    [][(StartFailedStep /\ session = 1)
       => /\ tm'.reader[last'.msg.pane] = NoHandle
          /\ NoWaitIssued(last'.msg.pane)]_vars

----------------------------------------------------------------------------
(* Specification SpecRender: one session of the stdout pane, 22 columns    *)
(* wide.  The file holds a line of 25 characters, which wraps; the stream  *)
(* gives empty lines and the line "a"; the keys clear the buffer and       *)
(* search for "a".                                                         *)

RenderLines == {<<>>, <<"a">>}

NextRender ==
    \/ Deliver
    \/ RunStart({<<FourLine>>}, {TRUE})
    \/ RunWait(RenderLines, {<<>>})
    \/ ~tm.inSearchMode /\ Key({"c", "/"})
    \/ tm.inSearchMode /\ Key({"a", "enter"})

SpecRender ==
    InitOpened({<<26, 10>>}, {TailModeStdout}, BufPaths, {FALSE})
        /\ [][NextRender]_vars

----------------------------------------------------------------------------
(* Properties of the render buffer *)

\* what a full rebuild from the wrapped blocks of the pane gives
FullRebuild(m, p) ==
    rebuildPaneContent(m, p, m.wrapped[p], ToLower(activeSearchTerm(m)))

\* C28: the render buffer of a pane has the line structure of its wrapped
\* blocks flattened into visual lines and joined by line breaks: in every
\* state it is what a full rebuild from the wrapped blocks gives, also after
\* an incremental append to a buffer whose content is a single empty line.
C28_RenderEqualsRebuild ==
    \A p \in Panes :
        /\ Len(SplitNL(tm.builder[p])) = Len(SplitNL(JoinNL(paneVisualLines(tm, p))))
        /\ tm.builder[p] = FullRebuild(tm, p)

\* the same, for the panes whose first line is not empty
RenderEqualsRebuildAfterText ==
    \A p \in Panes :
        (tm.lines[p] # <<>> /\ tm.lines[p][1] # <<>>)
            => tm.builder[p] = FullRebuild(tm, p)

----------------------------------------------------------------------------
(* Specification SpecMain: the main Model from its start.  The refresh     *)
(* timer ticks, the jobs are listed, a job is selected and inspected, its  *)
(* cancellation is asked for and confirmed or dismissed, and the log view  *)
(* is opened and closed.                                                   *)

\* a window in which the details panel is hidden
MainSizes == {<<40, 24>>}
MainJobLists ==
    {<<Job(<<"1">>, <<"RUNNING">>), Job(<<"2">>, <<"PENDING">>)>>,
     <<Job(<<"2">>, <<"PENDING">>)>>}
JobIDs == {<<"1">>, <<"2">>}
MainKeys == {"c", "j", "i", "v"}
DialogKeys == {"y", "Y", "n", "N", "esc", "q", "x"}
\* fetches, cancellations and their messages in flight at a time
MaxInFlight == 2

InFlight ==
    CountInPool({"fetchJobs", "jobsMsg", "fetchDetails", "detailsMsg", "cancel",
                 "refreshNowMsg"})

NextMain ==
    \/ InFlight < MaxInFlight /\ RunCmd({"tick"}, {}, {})
    \/ RunCmd({"fetchJobs"}, MainJobLists, {})
    \/ RunCmd({"fetchDetails"}, {}, {TRUE})
    \/ RunCmd({"cancel"}, {}, {})
    \/ Deliver
    \/ ~main.confirmingCancel /\ InFlight < MaxInFlight /\ MainKey(MainKeys)
    \/ main.confirmingCancel /\ InFlight < MaxInFlight /\ MainKey(DialogKeys)
    \/ getSelectedJob(main) # NoJob /\ PressTail({TailModeStdout}, {<<"", "">>})
    \/ Key({"q"})

SpecMain == InitMain(MainSizes) /\ [][NextMain]_vars

\* the tick loops alive: timers running and tick messages not yet handled
TickLoops == CountInPool({"tick", "tickMsg"})

TickStep == last'.msg.kind = "tickMsg"

\* C29: the refresh tick loop never dies and is never doubled: there is never
\* more than one tick loop, and the step that handles a tick message leaves
\* exactly one tick scheduled, whichever view or dialog is open.
C29_TickLoopNeverDies ==
    /\ [](TickLoops <= 1)
    /\ [][TickStep => TickLoops' = 1]_vars

\* what holds of it: the tick loop is never doubled, and a tick handled while
\* no cancel confirmation is open schedules the next one
TickLoopOutsideDialog ==
    /\ [](TickLoops <= 1)
    /\ [][TickStep /\ ~main.confirmingCancel => TickLoops' = 1]_vars

\* a tick was handled in the main view, in the log view, in the details
\* overlay and in the value overlay, and the loop lives on
TickedInMainView ==
    /\ last.msg.kind = "tickMsg" /\ TickLoops = 1
    /\ ~main.inTailView /\ ~main.inDetailsOverlay /\ ~main.inValueOverlay
TickedInLogView == last.msg.kind = "tickMsg" /\ TickLoops = 1 /\ main.inTailView
TickedInDetailsOverlay ==
    last.msg.kind = "tickMsg" /\ TickLoops = 1 /\ main.inDetailsOverlay
TickedInValueOverlay ==
    last.msg.kind = "tickMsg" /\ TickLoops = 1 /\ main.inValueOverlay

\* this step issues a cancel command for the job id
CancelIssued(id) ==
    \E x \in BagToSet(pool') :
        x.kind = "cancel" /\ x.id = id /\ CopiesIn(x, pool') > CopiesIn(x, pool)

DialogKeyStep(keys) ==
    main.confirmingCancel /\ last'.msg.kind = "key" /\ last'.msg.key \in keys

\* C30: a cancel command is issued only by the step that handles y or Y while
\* the confirmation is open, and for the job the dialog holds; the dialog
\* holds the job that was selected when it opened, for as long as it is open;
\* n, N, esc and q close the dialog, and no step other than y or Y in the
\* open dialog issues a cancel.
C30_CancelOnlyOnConfirm ==
    [][/\ \A id \in JobIDs :
             CancelIssued(id) => /\ DialogKeyStep({"y", "Y"})
                                 /\ id = main.cancelCandidate
       /\ ~main.confirmingCancel /\ main'.confirmingCancel
             => /\ getSelectedJob(main) # NoJob
                /\ main'.cancelCandidate = getSelectedJob(main)
       /\ main.confirmingCancel /\ main'.confirmingCancel
             => main'.cancelCandidate = main.cancelCandidate
       /\ DialogKeyStep({"n", "N", "esc", "q"}) => ~main'.confirmingCancel
      ]_vars

\* y has confirmed the cancellation of the second job, which was selected
\* when the dialog opened, while a new list of the jobs is on its way
C30_Witness ==
    /\ last.msg = KeyMsg("y")
    /\ ~main.confirmingCancel
    /\ \E x \in InPool({"cancel"}) : x.id = <<"2">>
    /\ Len(main.jobs) = 2
    /\ main.cursor = 1
    /\ CountInPool({"jobsMsg"}) > 0

----------------------------------------------------------------------------
(* Specification SpecHistory: the job list of the main view.  The lists of *)
(* squeue and sacct arrive, the History key switches between the live and  *)
(* the history mode, the StatusFilter key cycles the status filter.        *)

HistJobLists ==
    {<<Job(<<"1">>, <<"PD">>), Job(<<"2">>, <<"RUNNING">>),
       Job(<<"3">>, <<"COMPLETED">>)>>,
     <<Job(<<"4">>, <<"CANCELLED", SP, "BY", SP, "4840">>),
       Job(<<"5">>, <<"COMPLETING">>), Job(<<"6">>, <<"FAILED">>)>>}
HistKeys == {"h", "g"}

NextHistory ==
    \/ RunCmd({"fetchJobs"}, HistJobLists, {})
    \/ Deliver
    \/ InFlight + CountInPool({"resize"}) < MaxInFlight /\ MainKey(HistKeys)

SpecHistory == InitMain(MainSizes) /\ [][NextHistory]_vars

\* the jobs of the list that are neither running nor pending and pass the
\* status filter, in the order of the list
FinishedJobs(mn) ==
    LET finished(j) ==
            /\ ~IsRunning(j) /\ ~IsPending(j)
            /\ mn.sFilter = filterRunning => IsRunning(j)
            /\ mn.sFilter = filterPending => IsPending(j)
    IN  SelectSeq(mn.jobs, finished)

\* C31 as stated: in history mode the filtered list is exactly the finished
\* jobs of the job list that pass the filters, in their order; no running or
\* pending job is in it.
C31_HistoryListsFinishedJobs ==
    main.appMode = modeHistory => main.filtered = FinishedJobs(main)

\* C31, amended: the same once the list fetched after the change of mode has
\* arrived (updateTable keeps the rows it has while loadingJobs is set).
C31_HistoryListOnceFetched ==
    main.appMode = modeHistory /\ ~main.loadingJobs
        => main.filtered = FinishedJobs(main)

\* in history mode a list with a job that is completing has arrived, and the
\* two finished jobs around it are listed
C31_Witness ==
    /\ main.appMode = modeHistory
    /\ ~main.loadingJobs
    /\ last.msg.kind = "jobsMsg"
    /\ main.sFilter = filterAll
    /\ Len(main.jobs) = 3
    /\ main.jobs[2].JobID = <<"5">>
    /\ main.filtered = <<main.jobs[1], main.jobs[3]>>

----------------------------------------------------------------------------
(* Specification SpecSacct: the job list of history mode, made of the      *)
(* records that sacct prints: jobs, job steps, short and empty lines.      *)

SacctFields == <<"|", "n", "|", "|", "FAILED", "|", "|", "|", "|", "x">>
SacctRecords ==
    {<<"1">> \o SacctFields,
     <<SP, "2", SP>> \o SacctFields \o <<"|", "y">>,
     <<"1", ".", "batch">> \o SacctFields,
     <<"3", "|", "n">>,
     <<>>}
\* records in one output of sacct
MaxRecords == 3
SacctOutputs ==
    {JoinNL(rs) : rs \in UNION {[1..n -> SacctRecords] : n \in 1..MaxRecords}}

NextSacct ==
    \/ RunCmd({"fetchJobs"}, {<<>>}, {})
    \/ RunSacct(SacctOutputs)
    \/ Deliver
    \/ InFlight + CountInPool({"resize"}) = 0 /\ MainKey({"h"})

SpecSacct == InitMain(MainSizes) /\ [][NextSacct]_vars

\* the positions of the field separators of a record, and its i-th field
Pipes(rec) == {i \in 1..Len(rec) : rec[i] = "|"}
RECURSIVE FieldOf(_, _)
FieldOf(rec, i) ==
    LET nxt == IF Pipes(rec) = {} THEN Len(rec) + 1
               ELSE CHOOSE k \in Pipes(rec) : \A l \in Pipes(rec) : k <= l
    IN  IF i = 1 THEN SubSeq(rec, 1, nxt - 1)
        ELSE FieldOf(SubSeq(rec, nxt + 1, Len(rec)), i - 1)

\* a record of a job: eight fields or more, no step suffix in the job ID
JobRecord(rec) ==
    /\ Cardinality(Pipes(rec)) >= 7
    /\ \A k \in 1..Len(FieldOf(rec, 1)) : FieldOf(rec, 1)[k] # "."

\* the job list the step has made
ParsedJobs ==
    (CHOOSE x \in BagToSet(pool') :
        x.kind = "jobsMsg" /\ CopiesIn(x, pool') > CopiesIn(x, pool)).jobs

\* C32: parseSacct returns exactly the records of the output that have eight
\* fields or more and no step suffix in the job ID, newest first: the i-th job
\* from the end has the fields of the i-th such record.
C32_SacctJobsNewestFirst ==
    [][last'.msg.kind = "sacct" =>
          LET recs == SelectSeq(SplitNL(last'.msg.output), JobRecord)
              jobs == ParsedJobs
          IN  /\ Len(jobs) = Len(recs)
              /\ \A i \in 1..Len(recs) :
                    LET j == jobs[Len(recs) + 1 - i]
                    IN  /\ j.JobID = TrimSpace(FieldOf(recs[i], 1))
                        /\ j.Name = TrimSpace(FieldOf(recs[i], 2))
                        /\ j.User = TrimSpace(FieldOf(recs[i], 3))
                        /\ j.Status = TrimSpace(FieldOf(recs[i], 4))
                        /\ j.Partition = TrimSpace(FieldOf(recs[i], 5))
                        /\ j.Time = TrimSpace(FieldOf(recs[i], 6))
                        /\ j.Nodes = TrimSpace(FieldOf(recs[i], 7))
                        /\ j.NodeList = TrimSpace(FieldOf(recs[i], 8))
              /\ \A i \in 1..Len(jobs) : ~Contains(jobs[i].JobID, <<".">>)
      ]_vars

\* sacct has printed job 1, its batch step and job 2; the list that arrived
\* holds job 2 and then job 1
C32_Witness ==
    /\ last.msg.kind = "jobsMsg"
    /\ Len(last.msg.jobs) = 2
    /\ last.msg.jobs[1].JobID = <<"2">>
    /\ last.msg.jobs[2].JobID = <<"1">>
    /\ main.jobs = last.msg.jobs
    /\ main.appMode = modeHistory

----------------------------------------------------------------------------
(* Specification SpecEvict: one session in a terminal of 14 columns and 10 *)
(* rows.  Stacked, the stdout pane is 10 columns wide and 2 rows high, so  *)
(* that a block of four visual lines is longer than the pane; the lines    *)
(* streamed evict such blocks while the pane is paused or scrolled.        *)

EvictKeys == {"s", "p", "up", "down", "G"}

NextEvict ==
    \/ Deliver
    \/ RunStart({<<FourLine>>}, {TRUE})
    \/ RunWait({FourLine, LongLine}, {<<>>})
    \/ ~tm.inSearchMode /\ Key(EvictKeys)

SpecEvict ==
    InitOpened({<<14, 10>>}, {TailModeBoth}, FollowPaths, {FALSE}) /\ [][NextEvict]_vars

\* the append of this step evicts visual lines from a pane that does not stick
\* to the bottom and is scrolled down
EvictsUnderScroll ==
    /\ AppendStep
    /\ EvictedByStep > 0
    /\ ~(/\ tm.following /\ ~tm.paused
         /\ tm.view[last'.msg.pane].YOffset >= BottomOffset(tm, last'.msg.pane))
    /\ tm.view[last'.msg.pane].YOffset > 0

\* C33: such an append moves the scroll offset of the pane up by the number
\* of evicted visual lines, but not above the first line; and the scroll
\* offset of a pane is never negative.
C33_EvictionShiftsOffset ==
    /\ [](\A p \in Panes : tm.view[p].YOffset >= 0)
    /\ [][EvictsUnderScroll
          => tm'.view[last'.msg.pane].YOffset =
                Max(0, tm.view[last'.msg.pane].YOffset - EvictedByStep)]_vars

\* what holds of it: the offset is never negative, and the shift is exact
\* when the offset before the append is a line of the new content
EvictionShiftWithinContent ==
    /\ [](\A p \in Panes : tm.view[p].YOffset >= 0)
    /\ [][(/\ EvictsUnderScroll
           /\ tm.view[last'.msg.pane].YOffset <= ShownLines(tm', last'.msg.pane) - 1)
          => tm'.view[last'.msg.pane].YOffset =
                Max(0, tm.view[last'.msg.pane].YOffset - EvictedByStep)]_vars

\* an append has evicted four visual lines under a paused pane and the offset
\* has moved up by four
ShiftedByEviction ==
    /\ last.msg.kind = "logLineMsg" /\ last.inView /\ ~last.inSearch
    /\ Len(arrived["stdout"]) > MaxLogLines
    /\ tm.paused
    /\ tm.view["stdout"].YOffset = 2

----------------------------------------------------------------------------
(* Specification SpecFind: a session with both panes side by side, the     *)
(* stdout pane with two blocks of four visual lines, the stderr pane       *)
(* empty.  The user selects with the mouse, scrolls and finds: with no     *)
(* query, with a query no line holds, in the pane before it has lines.     *)

FindKeys == {"/", "n", "N", "up"}
FindTyped == {"x", "enter"}

NextFind ==
    \/ Deliver
    \/ RunStart({<<FourLine, FourLine>>}, {TRUE})
    \/ ~tm.inSearchMode /\ Key(FindKeys)
    \/ tm.inSearchMode /\ Key(FindTyped)
    \/ Mouse({"leftPress", "release"}, {3}, {3})

SpecFind ==
    InitOpened({<<26, 10>>}, {TailModeBoth}, FollowPaths, {TRUE}) /\ [][NextFind]_vars

\* what a find that finds nothing is to leave alone
FindFrame(m) ==
    <<[p \in Panes |-> m.view[p].YOffset], m.following, m.selectionPane,
      m.selectionAnchor, m.selectionCursor, m.selecting, m.crashed>>

NothingToFind ==
    \/ FindQuery = <<>>
    \/ tm.wrapped[activeViewPane(tm)] = <<>>
    \/ FindMatches = {}

\* the same fields when the step does not find: as they are for n and N, as
\* the close of the overlay leaves them for enter
FrameWithoutFind ==
    IF last'.inSearch THEN FindFrame(TailUpdate(tm, KeyMsg("esc")).m)
    ELSE FindFrame(tm)

\* C34: a find with an empty query, in an empty pane or with no matching line
\* leaves the scroll offsets of both panes, the follow flag and the selection
\* as they are, and the program running; n and N do nothing when no search
\* is remembered.
C34_FindWithoutMatchChangesNothing ==
    [][/\ (FindStep /\ NothingToFind) => FindFrame(tm') = FrameWithoutFind
       /\ (/\ last'.msg.kind = "key" /\ last'.msg.key \in {"n", "N"}
           /\ last'.inView /\ ~last'.inSearch /\ tm.lastSearch = <<>>)
             => FindFrame(tm') = FindFrame(tm)]_vars

\* the first position a backward find reads is a block of the pane
BackwardStartInRange ==
    LET p == activeViewPane(tm)
    IN  FindForward \/ tm.view[p].YOffset - 1 < Len(tm.wrapped[p])

\* what holds of it: the same for every find that starts within the blocks
FindInRangeChangesNothing ==
    [][/\ (FindStep /\ NothingToFind /\ BackwardStartInRange)
             => FindFrame(tm') = FrameWithoutFind
       /\ (/\ last'.msg.kind = "key" /\ last'.msg.key \in {"n", "N"}
           /\ last'.inView /\ ~last'.inSearch /\ tm.lastSearch = <<>>)
             => FindFrame(tm') = FindFrame(tm)]_vars

\* a find of a query that no line holds has left a scrolled pane and a
\* selection as they were
FoundNothing ==
    /\ last.msg = KeyMsg("n")
    /\ tm.lastSearch = <<"x">>
    /\ tm.selectionPane = "stdout"
    /\ tm.view["stdout"].YOffset = 2
    /\ ~tm.crashed

\* C40: a find never reads outside the blocks it searches: no find, forward
\* or backward, at any scroll offset, ends the program with an index out of
\* range.
C40_FindStaysInRange == ~tm.crashed

\* what holds of it: a forward find, and a backward find that starts within
\* the blocks, read only blocks of the pane
FindFromBlockStaysInRange ==
    [][(FindStep /\ BackwardStartInRange /\ ~tm.crashed) => ~tm'.crashed]_vars

\* a forward find from an offset beyond the number of blocks has found its
\* line
FoundForwardFromDeepOffset ==
    /\ last.msg = KeyMsg("n")
    /\ tm.lastSearch = <<"B">>
    /\ Len(tm.wrapped["stdout"]) = 2
    /\ tm.view["stdout"].YOffset = 0
    /\ ~tm.following
    /\ ~tm.crashed

----------------------------------------------------------------------------
(* Specification SpecEnd: the ends of the streams.  The view is opened in  *)
(* stdout-only mode, quit and opened again; the follow process ends with   *)
(* or without a partial last line, and the search overlay can be open      *)
(* when the event arrives.                                                 *)

EndPartials == {<<>>, <<"b">>}

NextEnd ==
    \/ PressTail({TailModeStdout}, LifePaths)
    \/ Deliver
    \/ Key({"esc"})
    \/ ~tm.inSearchMode /\ Key({"/"})
    \/ RunStart(LifeBatches, {TRUE})
    \/ RunWait(LifeLines, EndPartials)
    \/ RunCleanup

SpecEnd == InitWith(LifeSizes) /\ [][NextEnd]_vars

----------------------------------------------------------------------------
(* Properties of the terminal events *)

\* the loop hands, in this step, a terminal event to the open log view
TerminalStep ==
    /\ last'.msg.kind = "logLineMsg"
    /\ last'.msg.terminal
    /\ last'.inView

\* the buffer of capacity N after these lines were appended to it
Appended(buffer, ls) ==
    LET all == buffer \o ls
    IN  IF MaxLogLines > 0 /\ Len(all) > MaxLogLines
        THEN SubSeq(all, Len(all) - MaxLogLines + 1, Len(all))
        ELSE all

\* what a terminal event is to append: its partial line when it has one, then
\* one diagnostic, the end-of-stream text for EOF and the error text otherwise
ToAppend(msg) ==
    (IF msg.line # <<>> THEN <<msg.line>> ELSE <<>>)
    \o <<IF msg.err = "EOF" THEN EOFLine ELSE ErrLine>>

\* the terminal event of this step has appended its lines to its pane
TerminalAppended ==
    tm'.lines[last'.msg.pane] =
        Appended(tm.lines[last'.msg.pane], ToAppend(last'.msg))

\* a wait-for-line without a reader that ends in this step has left a
\* terminal event with a read error and no content
WaitWithoutReaderFails ==
    \A t \in InPool({"wait"}) :
        (t.reader = NoHandle /\ CopiesIn(t, pool') < CopiesIn(t, pool))
        => \E x \in BagToSet(pool') :
              /\ x.kind = "logLineMsg"
              /\ x.pane = t.pane
              /\ x.terminal
              /\ x.err \notin {"nil", "EOF"}
              /\ x.line = <<>>
              /\ CopiesIn(x, pool') > CopiesIn(x, pool)

\* C35: a terminal event with a partial last line appends that line and then
\* one diagnostic line, the end-of-stream text for EOF and the read-error
\* text otherwise; one without content appends the diagnostic only; and a
\* wait-for-line without a reader gives a terminal read-error event.
C35_TerminalEventAppendsDiagnostic ==
    [][/\ TerminalStep => TerminalAppended
       /\ WaitWithoutReaderFails]_vars

\* what holds of it: outside the search overlay every terminal event appends
\* its lines, and a wait-for-line without a reader always fails
TerminalAppendedOutsideSearch ==
    [][/\ (TerminalStep /\ ~last'.inSearch) => TerminalAppended
       /\ WaitWithoutReaderFails]_vars

\* the end of the stream with a partial last line has been handled: the
\* buffer ends with that line and the end-of-stream text
PartialThenEOF ==
    /\ last.msg.kind = "logLineMsg" /\ last.msg.terminal
    /\ last.inView /\ ~last.inSearch
    /\ last.msg.err = "EOF"
    /\ last.msg.line = <<"b">>
    /\ tm.lines["stdout"] = << <<"b">>, EOFLine >>

\* the event of a wait-for-line without a reader has been handled: the buffer
\* ends with the read-error text
NoReaderThenError ==
    /\ last.msg.kind = "logLineMsg" /\ last.msg.terminal
    /\ last.inView /\ ~last.inSearch
    /\ last.msg.err = "not initialized"
    /\ tm.lines["stdout"] # <<>>
    /\ tm.lines["stdout"][Len(tm.lines["stdout"])] = ErrLine

----------------------------------------------------------------------------
(* Properties of the messages of an earlier session *)

\* the loop handles, in this step, a message of a follower
FollowerStep == last'.msg.kind \in {"tailStartMsg", "logLineMsg"}

\* the line buffers and the handles of the log view are left as they were
BuffersAndHandlesKept ==
    /\ tm'.lines = tm.lines
    /\ tm'.reader = tm.reader
    /\ tm'.cmd = tm.cmd
    /\ tm'.pipe = tm.pipe

\* C36: a message of a follower of an earlier session of the log view never
\* changes the line buffers or the process, pipe and reader handles of a
\* later session.
C36_EarlierSessionLeavesLaterAlone ==
    [][(FollowerStep /\ last'.msg.sess < session') => BuffersAndHandlesKept]_vars

\* what holds of it: a message of a follower that arrives while the log view
\* is closed changes nothing of the log view
FollowerMessageDroppedWhenClosed ==
    [][(FollowerStep /\ ~last'.inView) => tm' = tm]_vars

\* a line event of the first session has arrived after the view was quit and
\* before it was opened again
LateLineDropped ==
    /\ last.msg.kind = "logLineMsg"
    /\ ~last.inView
    /\ last.msg.sess = 1
    /\ session = 1
    /\ ~main.inTailView

----------------------------------------------------------------------------
(* Specification SpecModes: one session of the log view, opened in any of  *)
(* the three modes, in which the mode keys are pressed.  Both panes have   *)
(* a path and every follow process can be spawned, so every start task     *)
(* that has run has left its process in procs.                             *)

ModeKeys == {"o", "e", "l", "s"}

NextModes ==
    \/ Deliver
    \/ RunStart(LifeBatches, {TRUE})
    \/ RunWait(LifeLines, {<<>>})
    \/ Key(ModeKeys)

SpecModes ==
    InitOpened({<<26, 10>>}, {TailModeBoth, TailModeStdout, TailModeStderr},
               LifePaths, {FALSE})
        /\ [][NextModes]_vars

----------------------------------------------------------------------------
(* Properties of the followers of the visible panes *)

\* the pane is shown in the mode of the view
PaneShown(m, p) ==
    \/ m.mode = TailModeBoth
    \/ m.mode = TailModeStdout /\ p = "stdout"
    \/ m.mode = TailModeStderr /\ p = "stderr"

\* a start of the follower of the pane has been issued in this session: its
\* task waits to run, or it has run and spawned its process
StartIssued(p) ==
    \/ \E t \in InPool({"start"}) : t.pane = p /\ t.sess = session
    \/ \E h \in 1..Len(procs) : procs[h].pane = p /\ procs[h].sess = session

\* C37: whenever a pane is shown in the mode of the open view, a start of its
\* follower has been issued in this session, also for a pane that the keys
\* o, e and l have made visible after the view was opened for one stream.
C37_ShownPaneHasFollower ==
    main.inTailView => \A p \in Panes : PaneShown(tm, p) => StartIssued(p)

\* what holds of it: the followers of the panes shown when the view is opened
\* are started, and no step starts or forgets a follower after that
FollowersStartedOnOpen ==
    /\ \A p \in Panes : PaneShown(tm, p) <=> StartIssued(p)
    /\ [][\A p \in Panes : StartIssued(p)' <=> StartIssued(p)]_vars

\* the view opened for both streams shows one of them only, with both
\* followers running
BothFollowedOneShown ==
    /\ tm.mode = TailModeStderr
    /\ last.msg = KeyMsg("e")
    /\ \A p \in Panes : \E h \in 1..Len(procs) : procs[h].pane = p /\ procs[h].alive

----------------------------------------------------------------------------
(* Specification SpecSelect: a session with both panes side by side and    *)
(* mouse support on, in a 26x10 terminal.  The stdout pane takes a line of *)
(* four words and then lines of one word, which evict it; presses, drags   *)
(* and releases on the last row of its content make selections; the keys   *)
(* change the orientation and the mode and open the search overlay, which  *)
(* is closed with an empty query.                                          *)

SelectKeys == {"s", "o", "l", "/"}
SelectEvents == {"leftPress", "leftMotion", "release"}

NextSelect ==
    \/ Deliver
    \/ RunStart({<<FourLine>>}, {TRUE})
    \/ RunWait({<<"a">>}, {<<>>})
    \/ Mouse(SelectEvents, {3}, {6})
    \/ ~tm.inSearchMode /\ Key(SelectKeys)
    \/ tm.inSearchMode /\ Key({"enter"})

SpecSelect ==
    InitOpened({<<26, 10>>}, {TailModeBoth}, FollowPaths, {TRUE})
        /\ [][NextSelect]_vars

----------------------------------------------------------------------------
(* Properties of the selection indices *)

\* the line index is one of the visual lines of the pane
IsVisualLine(m, p, i) == 0 <= i /\ i < ShownLines(m, p)

\* a drag has its pane, and the ends of a selection on a pane with visual
\* lines are visual lines of that pane
SelectionInRange(m) ==
    /\ m.selecting => m.selectionPane # ""
    /\ (m.selectionPane # "" /\ ShownLines(m, m.selectionPane) > 0)
       => /\ IsVisualLine(m, m.selectionPane, m.selectionAnchor.line)
          /\ IsVisualLine(m, m.selectionPane, m.selectionCursor.line)

\* C38: in every state, an active drag has a selection pane, and when the
\* selection pane has visual lines the anchor and the cursor line are indices
\* of its visual lines, also after the lines were wrapped again by a change
\* of mode, orientation or overlay and after an initial batch.
C38_SelectionIndicesInRange == SelectionInRange(tm)

\* what holds of it: a drag always has its pane, and a step that leaves the
\* widths of the panes as they are keeps the ends of the selection on visual
\* lines
SelectionKeptInRangeAtSameWidth ==
    [][/\ tm'.selecting => tm'.selectionPane # ""
       /\ (/\ SelectionInRange(tm)
           /\ \A p \in Panes : tm'.view[p].Width = tm.view[p].Width)
          => SelectionInRange(tm')]_vars

\* a line event has evicted visual lines under a selection, which has moved
\* up with them
SelectionMovedByEviction ==
    /\ last.msg.kind = "logLineMsg"
    /\ tm.selectionPane = "stdout"
    /\ ShownLines(tm, "stdout") > 0
    /\ tm.selectionCursor.line = 0
    /\ tm.lines["stdout"] = << <<"a">>, <<"a">> >>

----------------------------------------------------------------------------
(* Specification SpecGeom: one session opened in a terminal of 26x10 or    *)
(* 27x11, which can grow to 40x12.  The keys change the mode and the       *)
(* orientation and open the search overlay, which is closed with an empty  *)
(* query.                                                                  *)

GeomInitSizes == {<<26, 10>>, <<27, 11>>}
GeomSizes == {<<27, 11>>, <<40, 12>>}
GeomKeys == {"o", "e", "l", "s", "/"}

NextGeom ==
    \/ Deliver
    \/ RunStart({<<FourLine>>}, {TRUE})
    \/ ~tm.inSearchMode /\ Key(GeomKeys)
    \/ tm.inSearchMode /\ Key({"enter"})
    \/ Resize(GeomSizes)

SpecGeom ==
    InitOpened(GeomInitSizes, {TailModeBoth}, FollowPaths, {FALSE})
        /\ [][NextGeom]_vars

----------------------------------------------------------------------------
(* Properties of the outer rectangles *)

\* the outer rectangle lies within the columns, and the rows, of the terminal
InsideColumns(m, g) == g.x >= 0 /\ g.x + g.width <= m.width
InsideRows(m, g) == g.y >= 0 /\ g.y + g.height <= m.height

\* the two rectangles have no cell in common
Disjoint(g, h) ==
    \/ g.x + g.width <= h.x
    \/ h.x + h.width <= g.x
    \/ g.y + g.height <= h.y
    \/ h.y + h.height <= g.y

\* the terminal is large enough for the layout without its minimum sizes
LargeEnough(m) == m.width >= 26 /\ m.height >= 10

\* the outer rectangles of the panes shown are within the columns of the
\* terminal and, for all modes but these, within its rows; two of them do not
\* overlap and, side by side, their widths are at most the width of it
RectanglesFit(m, tallModes) ==
    LET out == paneGeometry(m, "stdout")
        err == paneGeometry(m, "stderr")
    IN  /\ \A g \in {out, err} :
              g.ok => /\ InsideColumns(m, g)
                      /\ (m.mode = TailModeBoth /\ m.stacked) \in tallModes
                         \/ InsideRows(m, g)
        /\ m.mode = TailModeBoth
           => /\ out.ok /\ err.ok
              /\ Disjoint(out, err)
              /\ ~m.stacked => out.width + err.width <= m.width
              /\ m.stacked => \/ TRUE \in tallModes
                              \/ out.height + err.height <= m.height

\* C39: in a terminal of at least 26 columns and 10 rows the outer rectangles
\* of the panes shown lie inside the terminal in every mode and orientation:
\* side by side their widths sum to at most its width, stacked their heights
\* sum to at most its height, and the two rectangles never overlap.
C39_PanesInsideTerminal ==
    (main.inTailView /\ LargeEnough(tm)) => RectanglesFit(tm, {})

\* what holds of it: all of it but the rows of the stacked panes
PanesInsideButStackedRows ==
    (main.inTailView /\ LargeEnough(tm)) => RectanglesFit(tm, {TRUE})

\* what holds of the stacked panes: their heights sum to the height of the
\* terminal and one row, unless the search overlay is open
StackedPanesOneRowTooTall ==
    (/\ main.inTailView /\ LargeEnough(tm)
     /\ tm.mode = TailModeBoth /\ tm.stacked /\ ~tm.inSearchMode)
    => paneGeometry(tm, "stdout").height + paneGeometry(tm, "stderr").height
           = tm.height + 1

\* the terminal has grown to 40 columns with both panes side by side, and
\* the two outer rectangles fill it up to its last two columns
SideBySideFits ==
    /\ main.inTailView
    /\ last.msg.kind = "resize"
    /\ tm.width = 40 /\ tm.mode = TailModeBoth /\ ~tm.stacked
    /\ paneGeometry(tm, "stderr").x + paneGeometry(tm, "stderr").width = 38

====
